---- MODULE Spec2Model ----
(***************************************************************************)
(* Whale Watcher front end: the trade store (zustand), the replay page's   *)
(* playback controller, the live WebSocket hook and the bubble pool of     *)
(* WhaleBubbleSpace, as state machines.                                    *)
(*                                                                         *)
(* Encoding notes.                                                         *)
(*  - Times are integers in milliseconds.  Virtual replay time is a        *)
(*    product duration * value with value a slider position k/PDen, so     *)
(*    virtualTimeRef holds the virtual time multiplied by PDen, and        *)
(*    playOriginRef holds the play origin multiplied by SPEED * PDen.      *)
(*    Arithmetic is exact (no floating-point rounding).                    *)
(*  - A ref or field that may be null/undefined is a record with an        *)
(*    isNull flag.                                                         *)
(***************************************************************************)
EXTENDS Integers, Sequences, FiniteSets, TLC

\* ------------------------------------------------------------------ bounds
MaxEvents == 3          \* longest replay payload
MaxClock == 4           \* clock readings: FrameMs * (1..MaxClock)
FrameMs == 250          \* wall-clock step between two clock readings
TsBase == 100000        \* timestamp of the earliest event of the universe
TsUnit == 2500          \* spacing of the event timestamps of the universe
MaxMounts == 2          \* mounts of the replay page
MaxNavEvents == 1       \* longest replay payload when the page is re-entered
MaxEffects == 2         \* runs of the live hook's effect
MaxSockets == 3         \* WebSocket connections ever made
MaxFeed == 2            \* messages the feed publishes
MaxEquivEvents == 22    \* longest event sequence put through both paths
MaxEquivOther == 2      \* events of it that are not institutional executions
MaxTradeIds == 2        \* trade ids spawned in the bubble space
BubbleT0 == 120000      \* Date.now() when the bubble space is mounted
ClockStep == 30000      \* Date.now() between two operations of the bubble space
MaxBubbleClock == 3     \* clock steps of the bubble space
FreeHead == 1           \* operations chosen freely before the pool is filled
MaxOverflow == 2        \* operations after MAX_BUBBLES operations
MaxTrades == 3          \* trades the feed delivers to the bubble space
MaxAlerts == 2          \* whale alerts the feed delivers to the bubble space
MaxSnapshots == 3       \* snapshots an order-book panel is rendered with
MaxPulses == 2          \* pulse ticks of an order-book panel
ScanStep == 1000        \* ms between two events of the pattern effect's clock
MaxScanMarkers == 2     \* markers the pattern scans of one run yield in all
MaxBookIds == 3         \* order books the backend goes through
MaxInFlight == 2        \* order-book polls sent and not yet resolved
MaxStoreCalls == 3      \* store actions called one after the other
MaxMixed == 1           \* entries of the other buffers while one buffer is filled
MaxScans == 4           \* pattern scans
MaxMarkers == 4         \* markers one pattern scan yields
MaxBooks == 5           \* order-book events applied to the panel's page
QtyDen == 2             \* quantities are counted in 1/QtyDen units

\* ------------------------------------------------------- program constants
SPEED == 10
PDen == 1000            \* the scrub slider's step is 1 / PDen
ReplayAlertCap == 100
ReplayInstCap == 50
LiveAlertCap == 100
LiveInstCap == 20
TradeCap == 200
HistoryGapMs == 5000
HistoryWindowMs == 3600000
LIFESPAN_MS == 60000
MAX_BUBBLES == 420
WHALE_THRESHOLD == 100000
PRICE_RANGE == 6
PRICE_SCALE == 120
PatternWindowMs == 5000
PatternCap == 6
PatternScanMs == 2000
RippleCap == 20
depth == 10

\* ------------------------------------------------------------------ helpers
Min(a, b) == IF a <= b THEN a ELSE b
Max(a, b) == IF a >= b THEN a ELSE b

\* Array.prototype.slice(0, n)
Take(s, n) == SubSeq(s, 1, Min(n, Len(s)))

Null == [isNull |-> TRUE, val |-> 0]
Some(v) == [isNull |-> FALSE, val |-> v]
\* JavaScript falsiness of a number-or-null ref: null and 0 are falsy
Falsy(ref) == ref.isNull \/ ref.val = 0

RECURSIVE Gcd(_, _)
Gcd(a, b) == IF b = 0 THEN a ELSE Gcd(b, a % b)

\* A non-negative rational, reduced: the exposed progress
Rat(n, d) == LET g == Gcd(n, d) IN [num |-> n \div g, den |-> d \div g]
RatZero == [num |-> 0, den |-> 1]
RatOne == [num |-> 1, den |-> 1]

\* a <= b for rationals with positive denominators, by comparing whole parts
\* and then the reciprocals of the fractional parts
RECURSIVE FracLeq(_, _, _, _)
FracLeq(a, b, c, d) ==
  IF a \div b # c \div d THEN a \div b < c \div d
  ELSE IF a % b = 0 THEN TRUE
  ELSE IF c % d = 0 THEN FALSE
  ELSE FracLeq(d, c % d, b, a % b)
RatLeq(a, b) == FracLeq(a.num, a.den, b.num, b.den)

\* An optional number that is undefined, and a timestamp string Date.parse rejects
Undefined == 0 - 1

\* --------------------------------------------------------------- the data
\* A WhaleAlert (lib/types.ts).  Only the fields the modelled code reads or
\* rewrites are kept; `extra` stands for any key of the transported object
\* that is not a WhaleAlert field.
AlertData(id, ts, value) ==
  [trade_id |-> id, timestamp |-> ts, trade_value |-> value, price |-> 100,
   severity_score |-> Undefined, price_move_pct |-> Undefined,
   similar_patterns |-> "empty", extra |-> "none"]

\* The payload of a whale_alert_update
UpdateData(id, sev, move) ==
  [trade_id |-> id, severity_score |-> sev, price_move_pct |-> move]

\* An InstitutionalExecutionEvent
InstData(label, ts) == [label |-> label, ts |-> ts, extra |-> "none"]

\* An OrderBookSnapshot; levels are <<price, qty>> pairs
Snapshot(uid, bids, asks, ts) ==
  [isNull |-> FALSE, last_update_id |-> uid, bids |-> bids, asks |-> asks,
   timestamp |-> ts]
NullBook == [isNull |-> TRUE]

\* An ExecutedTrade
TradeData(id, ts, value) ==
  [trade_id |-> id, timestamp |-> ts, trade_value |-> value, price |-> 100]

\* A ReplayEvent {ts, type, data}
Ev(ts, type, data) == [ts |-> ts, type |-> type, data |-> data]

\* ------------------------------------------------------ the store's actions
addWhaleAlert(list, alert) == Take(<<alert>> \o list, LiveAlertCap)

\* { ...alert, ...updates } with updates = {severity_score, price_move_pct}
MergeUpdates(alert, updates) ==
  [alert EXCEPT !.severity_score = updates.severity_score,
                !.price_move_pct = updates.price_move_pct]

updateWhaleAlert(list, tradeId, updates) ==
  [i \in DOMAIN list |->
     IF list[i].trade_id = tradeId THEN MergeUpdates(list[i], updates) ELSE list[i]]

addInstitutionalEvent(list, event) == Take(<<event>> \o list, LiveInstCap)

updateOrderBook(book, snapshot) == snapshot

addExecutedTrade(list, trade) == Take(<<trade>> \o list, TradeCap)

addReplayWhaleAlert(list, alert) == Take(<<alert>> \o list, ReplayAlertCap)

updateReplayWhaleAlert(list, tradeId, updates) ==
  [i \in DOMAIN list |->
     IF list[i].trade_id = tradeId THEN MergeUpdates(list[i], updates) ELSE list[i]]

addReplayInstitutionalEvent(list, event) == Take(<<event>> \o list, ReplayInstCap)

updateReplayOrderBook(book, snapshot) == snapshot

\* The replay-derived state as one value: the store's three replay fields, the
\* page's orderBookHistory, and (ghost) the applyEvent calls since the last
\* resetReplayState.
ReplayState(alerts, inst, book, hist, calls) ==
  [alerts |-> alerts, inst |-> inst, book |-> book, hist |-> hist, calls |-> calls]

\* Mutant: the reset forgets replayOrderBook
resetReplayStateKeepsBook(rs) ==
  [rs EXCEPT !.alerts = <<>>, !.inst = <<>>, !.calls = <<>>]

\* Mutant: the reset forgets replayWhaleAlerts
resetReplayStateKeepsAlerts(rs) ==
  [rs EXCEPT !.inst = <<>>, !.book = NullBook, !.calls = <<>>]

resetReplayState(rs) ==
  [rs EXCEPT !.alerts = <<>>, !.inst = <<>>, !.book = NullBook, !.calls = <<>>]

\* ------------------------------------------------------- the replay page
pushOrderBookHistory(prev, event) ==
  LET next == IF Len(prev) = 0 \/ event.ts - prev[Len(prev)].ts >= HistoryGapMs
              THEN Append(prev, event) ELSE prev
      cutoff == event.ts - HistoryWindowMs
      keep(entry) == entry.ts >= cutoff
  IN SelectSeq(next, keep)

applyEvent(rs, event) ==
  LET called == [rs EXCEPT !.calls = Append(rs.calls, event)]
  IN CASE event.type = "whale_alert" ->
            [called EXCEPT !.alerts = addReplayWhaleAlert(rs.alerts, event.data)]
       [] event.type = "whale_alert_update" ->
            [called EXCEPT !.alerts =
               updateReplayWhaleAlert(rs.alerts, event.data.trade_id,
                 [severity_score |-> event.data.severity_score,
                  price_move_pct |-> event.data.price_move_pct])]
       [] event.type = "institutional_execution" ->
            [called EXCEPT !.inst = addReplayInstitutionalEvent(rs.inst, event.data)]
       [] event.type = "order_book" ->
            [called EXCEPT !.book = updateReplayOrderBook(rs.book, event.data),
                           !.hist = pushOrderBookHistory(rs.hist, event)]
       [] OTHER -> called

\* The loop of applyEventsUpTo: while (idx < list.length && list[idx].ts <= targetTs).
\* targetTs = startTs + virtualMs; virtualS is virtualMs * PDen.
RECURSIVE ScrubLoop(_, _, _, _, _)
ScrubLoop(rs, idx, list, startTs, virtualS) ==
  IF idx < Len(list) /\ (list[idx + 1].ts - startTs) * PDen <= virtualS
  THEN ScrubLoop(applyEvent(rs, list[idx + 1]), idx + 1, list, startTs, virtualS)
  ELSE [rs |-> rs, idx |-> idx]

\* applyEventsUpTo: reset the store's replay fields and the history, then replay
applyEventsUpTo(rs, list, startTs, virtualS) ==
  LET cleared == [resetReplayState(rs) EXCEPT !.hist = <<>>]
  IN ScrubLoop(cleared, 0, list, startTs, virtualS)

\* Mutant: the tick applies one due event at most
TickLoopOnce(rs, idx, list, startTs, virtualS) ==
  IF idx < Len(list) /\ ~((list[idx + 1].ts - startTs) * PDen > virtualS)
  THEN [rs |-> applyEvent(rs, list[idx + 1]), idx |-> idx + 1]
  ELSE [rs |-> rs, idx |-> idx]

\* The loop of tick: stop at the first event with event.ts - startTs > virtualTime
RECURSIVE TickLoop(_, _, _, _, _)
TickLoop(rs, idx, list, startTs, virtualS) ==
  IF idx < Len(list) /\ ~((list[idx + 1].ts - startTs) * PDen > virtualS)
  THEN TickLoop(applyEvent(rs, list[idx + 1]), idx + 1, list, startTs, virtualS)
  ELSE [rs |-> rs, idx |-> idx]

\* payload.events.sort((a, b) => a.ts - b.ts): a stable sort
RECURSIVE InsertByTs(_, _)
InsertByTs(sorted, e) ==
  IF Len(sorted) = 0 THEN <<e>>
  ELSE IF sorted[Len(sorted)].ts <= e.ts THEN Append(sorted, e)
  ELSE Append(InsertByTs(SubSeq(sorted, 1, Len(sorted) - 1), e), sorted[Len(sorted)])

\* Mutant: the payload is used in the order received
SortByTsSkipped(list) == list

RECURSIVE SortByTs(_)
SortByTs(list) ==
  IF Len(list) = 0 THEN <<>>
  ELSE InsertByTs(SortByTs(SubSeq(list, 1, Len(list) - 1)), list[Len(list)])

\* ---------------------------------------------------------------- inputs
\* The events a replay fetch may return, in any order and number up to
\* MaxEvents: alerts (one updated later), an institutional signal, three
\* order-book snapshots 0, TsUnit and 2 * TsUnit apart, and a kind applyEvent
\* ignores.  Timestamps are epoch milliseconds, hence positive.
Levels1 == << <<100, 5>> >>
Levels2 == << <<101, 2>>, <<102, 9>> >>

ReplayUniverse ==
  { Ev(TsBase, "whale_alert", AlertData(1, TsBase, 150000)),
    Ev(TsBase + TsUnit, "whale_alert", AlertData(2, TsBase + TsUnit, 700000)),
    Ev(TsBase + TsUnit, "whale_alert_update", UpdateData(1, 7, 3)),
    Ev(TsBase + 2 * TsUnit, "institutional_execution", InstData("ICEBERG", TsBase + 2 * TsUnit)),
    Ev(TsBase, "order_book", Snapshot(1, Levels1, Levels2, TsBase)),
    Ev(TsBase + TsUnit, "order_book", Snapshot(2, Levels2, Levels1, TsBase + TsUnit)),
    Ev(TsBase + 2 * TsUnit, "order_book", Snapshot(3, Levels1, <<>>, TsBase + 2 * TsUnit)),
    Ev(TsBase + TsUnit, "trade", TradeData(9, TsBase + TsUnit, 50000)) }

Injective(f) == \A i, j \in DOMAIN f : f[i] = f[j] => i = j

Payloads ==
  { p \in UNION { [1..n -> ReplayUniverse] : n \in 0..MaxEvents } : Injective(p) }

\* Slider positions, in units of 1 / PDen
ScrubValues == {0, 200, 500, 1000}

\* One run of the hook's effect: the url it closed over, its `ws` variable (a
\* socket number, 0 for null), its pending reconnect timers, and (ghost)
\* whether its cleanup has not run yet
EffectOf(url, ws) == [url |-> url, ws |-> ws, timers |-> 0, active |-> TRUE]

\* A WebSocket: the effect run whose connect() made it, its url, its state
\* (connecting, open, closing, closed), the messages on their way to it
SocketOf(effect, url) ==
  [effect |-> effect, url |-> url, state |-> "connecting", inbox |-> <<>>]

\* A feed message: its place in the feed's output, its type, its content
Msg(seq, type, body) == [seq |-> seq, type |-> type, body |-> body]

\* What the feed may publish: the types onmessage handles, one it does not,
\* and text JSON.parse rejects
LiveUniverse ==
  { [type |-> "whale_alert", body |-> AlertData(1, TsBase, 150000)],
    [type |-> "whale_alert_update", body |-> UpdateData(1, 7, 3)],
    [type |-> "institutional_execution", body |-> InstData("ICEBERG", TsBase)],
    [type |-> "order_book", body |-> Snapshot(1, Levels1, Levels2, TsBase)],
    [type |-> "trade", body |-> TradeData(9, TsBase, 50000)],
    [type |-> "malformed", body |-> NullBook] }

Urls == {1, 2}

\* ------------------------------------------------------------------ state
VARIABLES
  \* the store (zustand)
  whaleAlerts, institutionalEvents, orderBook, executedTrades,
  replayWhaleAlerts, replayInstitutionalEvents, replayOrderBook,
  \* the replay page: React state and refs
  pageMounted, fetchPending, loading, events, isPlaying, progress,
  orderBookHistory, indexRef, startTsRef, endTsRef, virtualTimeRef,
  playOriginRef, rafRef, frames,
  \* the live feed hook (useWebSocket): its effect runs, the sockets they made,
  \* the messages the feed has published, the store's isConnected
  effects, sockets, published, isConnected,
  \* ghost: the feed messages applied to the store, by sequence number
  appliedMsgs,
  \* the bubble space (WhaleBubbleSpace): bubblesRef, seenTradesRef, sceneRef,
  \* Date.now()
  bubbles, seenTrades, sceneRef, dateNow,
  \* ghost: the ids of the entities created since the last resetBubbles, in
  \* order; whether animate has removed an entity since; operations so far
  created, expired, ops,
  \* WhaleBubbleSpace's pattern markers, with (ghost) every marker ever added;
  \* OrderBookPanel's ripples and seenRippleRef
  patterns, addedPatterns, ripples, seenRipple,
  \* WhaleBubbleSpace: the focus mode, midPriceRef, avgTradeValueRef,
  \* lastTradeTsRef, and (ghost) the computeAggression calls of the last commit
  focusMode, midPriceRef, avgTradeValueRef, lastTradeTsRef, scored,
  \* an OrderBookPanel: its snapshot prop, flowFlashRef, lastLevelsRef, and
  \* (ghosts) the keys whose flash the last run of the flash effect recorded,
  \* the snapshot the panel had before the one it has
  snapshotProp, flowFlashRef, lastLevelsRef, flashed, priorSnapshot,
  \* tick loops left running by unmounted replay pages
  orphans, mounts,
  \* the clock (performance.now), in ms
  now,
  \* ghosts: applyEvent calls since the last resetReplayState; the last operation
  applyCalls, lastOp,
  \* ghost: how the mounted page's fetch ended: pending, failed, empty, loaded
  loadOutcome,
  \* ghosts: the virtual time at the last stopPlayback, until the next tick,
  \* scrub, reset or load; that virtual time once the first tick after the
  \* resuming startPlayback has run, until the next operation of the page
  pausedAt, resumedAt,
  \* WhaleBubbleSpace's pattern effect: the time since its interval was set or
  \* fired last, in ms
  scanElapsed,
  \* the backend's order book (its last_update_id, 0 before the first), the
  \* order_book messages on their way to the socket, the order-book polls
  \* sent and not yet answered, the answers on their way to the page
  serverBook, wsInbox, pollRequests, pollResponses

liveVars == <<whaleAlerts, institutionalEvents, orderBook, executedTrades>>
replayStoreVars == <<replayWhaleAlerts, replayInstitutionalEvents, replayOrderBook>>
timelineVars == <<events, startTsRef, endTsRef>>
pageVars == <<pageMounted, fetchPending, loading, events, isPlaying, progress,
              orderBookHistory, indexRef, startTsRef, endTsRef, virtualTimeRef,
              playOriginRef, rafRef, frames>>
hookVars == <<effects, sockets, published, isConnected, appliedMsgs>>
bubbleVars == <<bubbles, seenTrades, sceneRef, dateNow, created, expired, ops>>
panelVars == <<patterns, addedPatterns, ripples, seenRipple>>
spaceVars == <<focusMode, midPriceRef, avgTradeValueRef, lastTradeTsRef, scored>>
flashVars == <<snapshotProp, flowFlashRef, lastLevelsRef, flashed, priorSnapshot>>
pauseVars == <<pausedAt, resumedAt>>
scanVars == <<scanElapsed>>
pollVars == <<serverBook, wsInbox, pollRequests, pollResponses>>
vars == <<liveVars, replayStoreVars, pageVars, orphans, mounts, now, applyCalls,
          lastOp, loadOutcome, hookVars, bubbleVars, panelVars, spaceVars, flashVars, pauseVars, scanVars, pollVars>>

\* The replay-derived state, read from and written to the variables
CurrentReplayState ==
  ReplayState(replayWhaleAlerts, replayInstitutionalEvents, replayOrderBook,
              orderBookHistory, applyCalls)

SetReplayState(rs) ==
  /\ replayWhaleAlerts' = rs.alerts
  /\ replayInstitutionalEvents' = rs.inst
  /\ replayOrderBook' = rs.book
  /\ orderBookHistory' = rs.hist
  /\ applyCalls' = rs.calls

Op(name, value) == [op |-> name, value |-> value]

\* The store as created, and the replay page as first rendered with its
\* fetch effect started (setLoading(true), request in flight).
Init ==
  /\ whaleAlerts = <<>> /\ institutionalEvents = <<>>
  /\ orderBook = NullBook /\ executedTrades = <<>>
  /\ replayWhaleAlerts = <<>> /\ replayInstitutionalEvents = <<>>
  /\ replayOrderBook = NullBook
  /\ pageMounted = TRUE /\ fetchPending = TRUE /\ loading = TRUE
  /\ events = <<>> /\ isPlaying = FALSE /\ progress = RatZero
  /\ orderBookHistory = <<>>
  /\ indexRef = 0 /\ startTsRef = 0 /\ endTsRef = 0 /\ virtualTimeRef = 0
  /\ playOriginRef = Null /\ rafRef = "null" /\ frames = 0
  /\ orphans = {} /\ mounts = 1
  /\ now = FrameMs
  /\ applyCalls = <<>>
  /\ lastOp = Op("mount", 0)
  /\ loadOutcome = "pending"
  /\ effects = <<EffectOf(1, 1)>>
  /\ sockets = <<SocketOf(1, 1)>>
  /\ published = 0
  /\ isConnected = FALSE
  /\ appliedMsgs = <<>>
  /\ bubbles = <<>>
  /\ seenTrades = {}
  /\ sceneRef = TRUE
  /\ dateNow = BubbleT0
  /\ created = <<>>
  /\ expired = FALSE
  /\ ops = 0
  /\ patterns = <<>>
  /\ addedPatterns = <<>>
  /\ ripples = <<>>
  /\ seenRipple = {}
  /\ focusMode = "all"
  /\ midPriceRef = RatZero
  /\ avgTradeValueRef = RatOne
  /\ lastTradeTsRef = Null
  /\ scored = <<>>
  /\ snapshotProp = NullBook
  /\ flowFlashRef = <<>>
  /\ lastLevelsRef = <<>>
  /\ flashed = {}
  /\ priorSnapshot = NullBook
  /\ pausedAt = Null
  /\ resumedAt = Null
  /\ scanElapsed = 0
  /\ serverBook = 0
  /\ wsInbox = <<>>
  /\ pollRequests = 0
  /\ pollResponses = <<>>

\* Time passes
Advance ==
  /\ now + FrameMs <= FrameMs * MaxClock
  /\ now' = now + FrameMs
  /\ UNCHANGED <<liveVars, replayStoreVars, pageVars, orphans, mounts, applyCalls, lastOp, loadOutcome, hookVars, bubbleVars, panelVars, spaceVars, flashVars, pauseVars, scanVars, pollVars>>

\* fetchReplay, from `await res.json()` on, with payload.success and
\* payload.events present
FetchOk(payload) ==
  LET sorted == SortByTs(payload)
      rs == resetReplayState(CurrentReplayState)
  IN /\ pageMounted /\ fetchPending
     /\ fetchPending' = FALSE /\ loading' = FALSE
     /\ events' = sorted
     /\ startTsRef' = IF Len(sorted) > 0 THEN sorted[1].ts ELSE 0
     /\ endTsRef' = IF Len(sorted) > 0 THEN sorted[Len(sorted)].ts ELSE 0
     /\ indexRef' = 0
     /\ virtualTimeRef' = 0
     /\ IF Len(sorted) = 0
        THEN /\ progress' = RatZero
             /\ SetReplayState([rs EXCEPT !.hist = <<>>])
        ELSE /\ progress' = progress
             /\ SetReplayState(rs)
     /\ lastOp' = Op("load", Len(sorted))
     /\ loadOutcome' = IF Len(sorted) = 0 THEN "empty" ELSE "loaded"
     /\ UNCHANGED <<liveVars, pageMounted, isPlaying, playOriginRef, rafRef,
                    frames, orphans, mounts, now, hookVars, bubbleVars, panelVars, spaceVars, flashVars, scanVars, pollVars>>
     /\ pausedAt' = Null
     /\ resumedAt' = Null

\* fetchReplay when fetch throws, the response is not ok, or the payload is
\* unsuccessful: only the finally block runs
FetchFail ==
  /\ pageMounted /\ fetchPending
  /\ fetchPending' = FALSE /\ loading' = FALSE
  /\ lastOp' = Op("loadfail", 0)
  /\ loadOutcome' = "failed"
  /\ UNCHANGED <<liveVars, replayStoreVars, pageMounted, events, isPlaying,
                 progress, orderBookHistory, indexRef, startTsRef, endTsRef,
                 virtualTimeRef, playOriginRef, rafRef, frames, orphans, mounts,
                 now, applyCalls, hookVars, bubbleVars, panelVars, spaceVars, flashVars, pauseVars, scanVars, pollVars>>

\* Mutant: stopPlayback leaves the requested frame pending
FramesKept(ref, n) == n

\* cancelAnimationFrame(rafRef.current) when rafRef.current is set: it removes
\* the pending callback only if the ref still names one
FramesAfterCancel(ref, n) == IF ref = "live" THEN n - 1 ELSE n

\* Mutant: the play origin is the current clock, the position reached is lost
PlayOriginFromZero(clock, virtualS) == Some(clock * SPEED * PDen)

\* playOriginRef.current = performance.now() - virtualTimeRef.current / SPEED
PlayOrigin(clock, virtualS) == Some(clock * SPEED * PDen - virtualS)

\* The Play button (shown while not playing): startPlayback
StartPlayback ==
  /\ pageMounted /\ ~isPlaying
  /\ IF Len(events) = 0
     THEN UNCHANGED <<playOriginRef, isPlaying, rafRef, frames>>
     ELSE /\ playOriginRef' = PlayOrigin(now, virtualTimeRef)
          /\ isPlaying' = TRUE
          /\ rafRef' = "live"
          /\ frames' = frames + 1
  /\ lastOp' = Op("play", 0)
  /\ UNCHANGED <<liveVars, replayStoreVars, pageMounted, fetchPending, loading,
                 events, progress, orderBookHistory, indexRef, startTsRef,
                 endTsRef, virtualTimeRef, orphans, mounts, now, applyCalls, loadOutcome, hookVars, bubbleVars, panelVars, spaceVars, flashVars, scanVars, pollVars>>
  /\ resumedAt' = Null
  /\ UNCHANGED pausedAt

\* The Pause button (shown while playing): stopPlayback
StopPlayback ==
  /\ pageMounted /\ isPlaying
  /\ isPlaying' = FALSE
  /\ rafRef' = "null"
  /\ frames' = FramesAfterCancel(rafRef, frames)
  /\ lastOp' = Op("pause", 0)
  /\ UNCHANGED <<liveVars, replayStoreVars, pageMounted, fetchPending, loading,
                 events, progress, orderBookHistory, indexRef, startTsRef,
                 endTsRef, virtualTimeRef, playOriginRef, orphans, mounts, now,
                 applyCalls, loadOutcome, hookVars, bubbleVars, panelVars, spaceVars, flashVars, scanVars, pollVars>>
  /\ pausedAt' = Some(virtualTimeRef)
  /\ resumedAt' = Null

\* virtualTimeRef.current = Math.min(elapsed, endTs - startTs), times PDen
TickVirtualTime(clock, origin, startTs, endTs) ==
  Min(clock * SPEED * PDen - origin.val, (endTs - startTs) * PDen)

\* ratio, clamped to [0, 1]
TickProgress(virtualS, startTs, endTs) ==
  IF endTs > startTs
  THEN IF virtualS <= 0 THEN RatZero
       ELSE IF virtualS >= (endTs - startTs) * PDen THEN RatOne
       ELSE Rat(virtualS, (endTs - startTs) * PDen)
  ELSE RatZero

\* One animation frame of the mounted page: tick.  byRef tells whether the
\* callback that fires is the one rafRef names.
Tick ==
  \E byRef \in BOOLEAN :
    LET firedRef == IF byRef THEN "stale" ELSE rafRef
        virtualS == TickVirtualTime(now, playOriginRef, startTsRef, endTsRef)
        out == TickLoop(CurrentReplayState, indexRef, events, startTsRef, virtualS)
    IN /\ pageMounted
       /\ frames > 0
       /\ IF byRef THEN rafRef = "live" ELSE frames > (IF rafRef = "live" THEN 1 ELSE 0)
       /\ IF Falsy(playOriginRef)
          THEN /\ rafRef' = firedRef
               /\ frames' = frames - 1
               /\ lastOp' = Op("tickreturn", 0)
               /\ UNCHANGED <<replayStoreVars, orderBookHistory, applyCalls,
                              indexRef, virtualTimeRef, progress, isPlaying>>
          ELSE /\ virtualTimeRef' = virtualS
               /\ SetReplayState(out.rs)
               /\ indexRef' = out.idx
               /\ progress' = TickProgress(virtualS, startTsRef, endTsRef)
               /\ IF virtualS >= (endTsRef - startTsRef) * PDen
                  THEN /\ isPlaying' = FALSE
                       /\ rafRef' = "null"
                       /\ frames' = FramesAfterCancel(firedRef, frames - 1)
                  ELSE /\ isPlaying' = isPlaying
                       /\ rafRef' = "live"
                       /\ frames' = frames
               /\ lastOp' = Op("tick", 0)
       /\ UNCHANGED <<liveVars, pageMounted, fetchPending, loading, events,
                      startTsRef, endTsRef, playOriginRef, orphans, mounts, now, loadOutcome, hookVars, bubbleVars, panelVars, spaceVars, flashVars, scanVars, pollVars>>
       /\ pausedAt' = IF isPlaying THEN Null ELSE pausedAt
       /\ resumedAt' = IF isPlaying THEN pausedAt ELSE Null

\* Mutant: the play origin is left as it was
ScrubResultKeepsOrigin(k, playing) ==
  LET virtualS == (endTsRef - startTsRef) * k
      out == applyEventsUpTo(CurrentReplayState, events, startTsRef, virtualS)
  IN [virtualS |-> virtualS, progress |-> Rat(k, PDen), rs |-> out.rs,
      idx |-> out.idx, origin |-> playOriginRef]

\* handleScrub(value) with value = k / PDen, run by a handler whose closure
\* holds `playing` as isPlaying.  Gives the new values it writes.
ScrubResult(k, playing) ==
  LET virtualS == (endTsRef - startTsRef) * k
      out == applyEventsUpTo(CurrentReplayState, events, startTsRef, virtualS)
  IN [virtualS |-> virtualS, progress |-> Rat(k, PDen), rs |-> out.rs,
      idx |-> out.idx,
      origin |-> IF playing THEN PlayOrigin(now, virtualS) ELSE playOriginRef]

\* if (!endTs || !startTs) return
ScrubGuard == endTsRef = 0 \/ startTsRef = 0

\* The slider's onChange: handleScrub(value)
HandleScrub(k) ==
  LET r == ScrubResult(k, isPlaying)
  IN /\ pageMounted
     /\ IF ScrubGuard
        THEN /\ lastOp' = Op("scrubreturn", k)
             /\ UNCHANGED <<replayStoreVars, orderBookHistory, applyCalls,
                            indexRef, virtualTimeRef, progress, playOriginRef>>
        ELSE /\ virtualTimeRef' = r.virtualS
             /\ progress' = r.progress
             /\ SetReplayState(r.rs)
             /\ indexRef' = r.idx
             /\ playOriginRef' = r.origin
             /\ lastOp' = Op("scrub", k)
     /\ UNCHANGED <<liveVars, pageMounted, fetchPending, loading, events,
                    isPlaying, startTsRef, endTsRef, rafRef, frames, orphans, mounts, now, loadOutcome, hookVars, bubbleVars, panelVars, spaceVars, flashVars, scanVars, pollVars>>
     /\ pausedAt' = IF ScrubGuard THEN pausedAt ELSE Null
     /\ resumedAt' = Null

\* The Reset button: stopPlayback(); handleScrub(0), the latter with the
\* isPlaying of the render the click happened in
ResetButton ==
  LET r == ScrubResult(0, isPlaying)
  IN /\ pageMounted
     /\ isPlaying' = FALSE
     /\ rafRef' = "null"
     /\ frames' = IF rafRef = "null" THEN frames ELSE FramesAfterCancel(rafRef, frames)
     /\ IF ScrubGuard
        THEN /\ lastOp' = Op("resetreturn", 0)
             /\ UNCHANGED <<replayStoreVars, orderBookHistory, applyCalls,
                            indexRef, virtualTimeRef, progress, playOriginRef>>
        ELSE /\ virtualTimeRef' = r.virtualS
             /\ progress' = r.progress
             /\ SetReplayState(r.rs)
             /\ indexRef' = r.idx
             /\ playOriginRef' = r.origin
             /\ lastOp' = Op("reset", 0)
     /\ UNCHANGED <<liveVars, pageMounted, fetchPending, loading, events,
                    startTsRef, endTsRef, orphans, mounts, now, loadOutcome, hookVars, bubbleVars, panelVars, spaceVars, flashVars, scanVars, pollVars>>
     /\ pausedAt' = IF ScrubGuard THEN Some(virtualTimeRef) ELSE Null
     /\ resumedAt' = Null

\* One replay page, from its mount on
Next ==
  \/ Advance
  \/ \E payload \in Payloads : FetchOk(payload)
  \/ FetchFail
  \/ StartPlayback
  \/ StopPlayback
  \/ Tick
  \/ \E k \in ScrubValues : HandleScrub(k)
  \/ ResetButton

Spec == Init /\ [][Next]_vars

\* The same session with frames that fire: a callback requested with
\* requestAnimationFrame is eventually run, and time passes
FairSpec == Init /\ [][Next]_vars /\ WF_vars(Tick) /\ WF_vars(Advance)

\* --------------------------------------------------- leaving and re-entering
\* Navigating away unmounts ReplayPage.  The component registers no cleanup:
\* a pending animation frame still fires, and a pending fetch still resolves,
\* both against the unmounted instance's refs and the shared store.
LoopOf(list, idx, startTs, endTs, origin) ==
  [kind |-> "loop", events |-> list, index |-> idx, startTs |-> startTs,
   endTs |-> endTs, origin |-> origin]
FetchOf == [kind |-> "fetch"]

Unmount ==
  /\ pageMounted
  /\ pageMounted' = FALSE
  /\ orphans' = orphans
       \cup (IF frames > 0
             THEN {LoopOf(events, indexRef, startTsRef, endTsRef, playOriginRef)}
             ELSE {})
       \cup (IF fetchPending THEN {FetchOf} ELSE {})
  /\ fetchPending' = FALSE
  /\ frames' = 0
  /\ lastOp' = Op("unmount", 0)
  /\ UNCHANGED <<liveVars, replayStoreVars, loading, events, isPlaying, progress,
                 orderBookHistory, indexRef, startTsRef, endTsRef, virtualTimeRef,
                 playOriginRef, rafRef, now, applyCalls, mounts, loadOutcome, hookVars, bubbleVars, panelVars, spaceVars, flashVars, pauseVars, scanVars, pollVars>>

\* Navigating to /replay: a new ReplayPage instance, its state and refs at
\* their initial values, its fetch effect started.  The store is shared.
Mount ==
  /\ ~pageMounted
  /\ mounts < MaxMounts
  /\ mounts' = mounts + 1
  /\ pageMounted' = TRUE /\ fetchPending' = TRUE /\ loading' = TRUE
  /\ events' = <<>> /\ isPlaying' = FALSE /\ progress' = RatZero
  /\ orderBookHistory' = <<>>
  /\ indexRef' = 0 /\ startTsRef' = 0 /\ endTsRef' = 0 /\ virtualTimeRef' = 0
  /\ playOriginRef' = Null /\ rafRef' = "null" /\ frames' = 0
  /\ lastOp' = Op("mount", 0)
  /\ loadOutcome' = "pending"
  /\ UNCHANGED <<liveVars, replayStoreVars, orphans, now, applyCalls, hookVars, bubbleVars, panelVars, spaceVars, flashVars, scanVars, pollVars>>
  /\ pausedAt' = Null
  /\ resumedAt' = Null

\* A frame of an unmounted page's tick loop: the same tick, its setProgress and
\* setIsPlaying without effect, its pushOrderBookHistory lost with the instance
OrphanTick(o) ==
  LET virtualS == TickVirtualTime(now, o.origin, o.startTs, o.endTs)
      out == TickLoop(CurrentReplayState, o.index, o.events, o.startTs, virtualS)
  IN /\ o \in orphans
     /\ o.kind = "loop"
     /\ IF Falsy(o.origin)
        THEN /\ orphans' = orphans \ {o}
             /\ UNCHANGED <<replayStoreVars, applyCalls>>
        ELSE /\ replayWhaleAlerts' = out.rs.alerts
             /\ replayInstitutionalEvents' = out.rs.inst
             /\ replayOrderBook' = out.rs.book
             /\ applyCalls' = out.rs.calls
             /\ orphans' = (orphans \ {o})
                  \cup (IF virtualS >= (o.endTs - o.startTs) * PDen
                        THEN {}
                        ELSE {[o EXCEPT !.index = out.idx]})
     /\ lastOp' = Op("orphantick", 0)
     /\ UNCHANGED <<liveVars, pageVars, mounts, now, loadOutcome, hookVars, bubbleVars, panelVars, spaceVars, flashVars, pauseVars, scanVars, pollVars>>

\* An unmounted page's fetch resolves: on success its resetReplayState() runs
OrphanFetchOk ==
  LET rs == resetReplayState(CurrentReplayState)
  IN /\ FetchOf \in orphans
     /\ orphans' = orphans \ {FetchOf}
     /\ replayWhaleAlerts' = rs.alerts
     /\ replayInstitutionalEvents' = rs.inst
     /\ replayOrderBook' = rs.book
     /\ applyCalls' = rs.calls
     /\ lastOp' = Op("orphanload", 0)
     /\ UNCHANGED <<liveVars, pageVars, mounts, now, loadOutcome, hookVars, bubbleVars, panelVars, spaceVars, flashVars, pauseVars, scanVars, pollVars>>

OrphanFetchFail ==
  /\ FetchOf \in orphans
  /\ orphans' = orphans \ {FetchOf}
  /\ lastOp' = Op("orphanloadfail", 0)
  /\ UNCHANGED <<liveVars, replayStoreVars, pageVars, mounts, now, applyCalls, loadOutcome, hookVars, bubbleVars, panelVars, spaceVars, flashVars, pauseVars, scanVars, pollVars>>

NavPayloads == { p \in Payloads : Len(p) <= MaxNavEvents }

\* The replay page across navigation
NavNext ==
  \/ Advance
  \/ \E payload \in NavPayloads : FetchOk(payload)
  \/ FetchFail
  \/ StartPlayback
  \/ StopPlayback
  \/ Tick
  \/ \E k \in ScrubValues : HandleScrub(k)
  \/ ResetButton
  \/ Unmount
  \/ Mount
  \/ \E o \in orphans : OrphanTick(o)
  \/ OrphanFetchOk
  \/ OrphanFetchFail

NavSpec == Init /\ [][NavNext]_vars

\* ---------------------------------------------------- the live feed hook
\* null in a field the hook fills with `?? null`
NullNum == 0 - 2

\* The WhaleAlert onmessage builds: the thirteen WhaleAlert fields copied one
\* by one (any other key of the message is dropped), similar_patterns ?? []
LiveAlert(d) ==
  [d EXCEPT !.similar_patterns = IF @ = "missing" THEN "empty" ELSE @,
            !.extra = "none"]

\* The InstitutionalExecutionEvent onmessage builds, field by field
LiveInst(d) == [d EXCEPT !.extra = "none"]

\* The OrderBookSnapshot onmessage builds from data.data, which may be absent
LiveSnapshot(d) ==
  IF d.isNull THEN Snapshot(NullNum, <<>>, <<>>, NullNum) ELSE d

\* The live-derived state as one value
LiveState(alerts, inst, book, trades) ==
  [alerts |-> alerts, inst |-> inst, book |-> book, trades |-> trades]

CurrentLiveState ==
  LiveState(whaleAlerts, institutionalEvents, orderBook, executedTrades)

SetLiveState(st) ==
  /\ whaleAlerts' = st.alerts
  /\ institutionalEvents' = st.inst
  /\ orderBook' = st.book
  /\ executedTrades' = st.trades

\* The message types for which onmessage calls a store action
HandledTypes ==
  {"whale_alert", "trade", "institutional_execution", "order_book",
   "whale_alert_update"}

\* ws.onmessage: JSON.parse, then the dispatch on data.type; text that does
\* not parse and types without a branch change nothing
OnMessage(st, m) ==
  CASE m.type = "whale_alert" ->
         [st EXCEPT !.alerts = addWhaleAlert(@, LiveAlert(m.body))]
    [] m.type = "trade" ->
         [st EXCEPT !.trades = addExecutedTrade(@, m.body)]
    [] m.type = "institutional_execution" ->
         [st EXCEPT !.inst = addInstitutionalEvent(@, LiveInst(m.body))]
    [] m.type = "order_book" ->
         [st EXCEPT !.book = updateOrderBook(@, LiveSnapshot(m.body))]
    [] m.type = "whale_alert_update" ->
         [st EXCEPT !.alerts = updateWhaleAlert(@, m.body.trade_id, m.body)]
    [] OTHER -> st

\* connect(): the effect run's `ws` becomes a new socket with its handlers
Connect(effs, e) == [effs EXCEPT ![e].ws = Len(sockets) + 1]

\* ws.close() on a socket: the close handshake starts (no further message
\* events are delivered); on a closing or closed socket it does nothing
CloseSocket(sock) ==
  IF sock.state \in {"connecting", "open"}
  THEN [sock EXCEPT !.state = "closing", !.inbox = <<>>]
  ELSE sock

\* The effect's cleanup: if (ws) ws.close()
Cleanup(socks, eff) ==
  IF eff.ws = 0 THEN socks
  ELSE [socks EXCEPT ![eff.ws] = CloseSocket(@)]

ActiveEffects == {e \in DOMAIN effects : effects[e].active}

replayUnchanged == UNCHANGED <<replayStoreVars, pageVars, orphans, mounts, now,
                               applyCalls, lastOp, loadOutcome, bubbleVars, panelVars, spaceVars, flashVars, pauseVars, scanVars, pollVars>>

\* The component using the hook mounts: the effect runs and calls connect()
HookMount(u) ==
  /\ ActiveEffects = {}
  /\ Len(effects) < MaxEffects
  /\ Len(sockets) < MaxSockets
  /\ effects' = Append(effects, EffectOf(u, Len(sockets) + 1))
  /\ sockets' = Append(sockets, SocketOf(Len(effects) + 1, u))
  /\ UNCHANGED <<liveVars, published, isConnected, appliedMsgs>>
  /\ replayUnchanged

\* The component unmounts: the effect's cleanup runs
HookCleanup ==
  /\ \E e \in ActiveEffects :
       /\ effects' = [effects EXCEPT ![e].active = FALSE]
       /\ sockets' = Cleanup(sockets, effects[e])
  /\ UNCHANGED <<liveVars, published, isConnected, appliedMsgs>>
  /\ replayUnchanged

\* The url prop changes: the old run's cleanup, then the effect runs again
HookUrlChange(u) ==
  /\ Len(effects) < MaxEffects
  /\ Len(sockets) < MaxSockets
  /\ \E e \in ActiveEffects :
       /\ effects[e].url # u
       /\ effects' = Append([effects EXCEPT ![e].active = FALSE],
                            EffectOf(u, Len(sockets) + 1))
       /\ sockets' = Append(Cleanup(sockets, effects[e]),
                            SocketOf(Len(effects) + 1, u))
  /\ UNCHANGED <<liveVars, published, isConnected, appliedMsgs>>
  /\ replayUnchanged

\* ws.onopen
SocketOpen(s) ==
  /\ sockets[s].state = "connecting"
  /\ sockets' = [sockets EXCEPT ![s].state = "open"]
  /\ isConnected' = TRUE
  /\ UNCHANGED <<liveVars, effects, published, appliedMsgs>>
  /\ replayUnchanged

\* ws.onerror; the browser closes the connection after it
SocketError(s) ==
  /\ sockets[s].state \in {"connecting", "open"}
  /\ sockets' = [sockets EXCEPT ![s].state = "closing", ![s].inbox = <<>>]
  /\ isConnected' = FALSE
  /\ UNCHANGED <<liveVars, effects, published, appliedMsgs>>
  /\ replayUnchanged

\* ws.onclose, whatever ended the connection: setConnected(false) and
\* setTimeout(connect, 3000) in the effect run that made the socket
SocketClose(s) ==
  /\ sockets[s].state \in {"connecting", "open", "closing"}
  /\ sockets' = [sockets EXCEPT ![s].state = "closed", ![s].inbox = <<>>]
  /\ isConnected' = FALSE
  /\ effects' = [effects EXCEPT ![sockets[s].effect].timers = @ + 1]
  /\ UNCHANGED <<liveVars, published, appliedMsgs>>
  /\ replayUnchanged

\* A reconnect timer fires: connect() of the run that set it
TimerFire(e) ==
  /\ effects[e].timers > 0
  /\ Len(sockets) < MaxSockets
  /\ effects' = [Connect(effects, e) EXCEPT ![e].timers = @ - 1]
  /\ sockets' = Append(sockets, SocketOf(e, effects[e].url))
  /\ UNCHANGED <<liveVars, published, isConnected, appliedMsgs>>
  /\ replayUnchanged

\* The feed at url u sends one message to every connection open to it
Publish(u, payload) ==
  /\ published < MaxFeed
  /\ published' = published + 1
  /\ sockets' =
       [s \in DOMAIN sockets |->
          IF sockets[s].state = "open" /\ sockets[s].url = u
          THEN [sockets[s] EXCEPT
                  !.inbox = Append(@, Msg(published + 1, payload.type, payload.body))]
          ELSE sockets[s]]
  /\ UNCHANGED <<liveVars, effects, isConnected, appliedMsgs>>
  /\ replayUnchanged

\* ws.onmessage for the next message of connection s
Deliver(s) ==
  /\ sockets[s].state = "open"
  /\ sockets[s].inbox # <<>>
  /\ LET m == Head(sockets[s].inbox)
     IN /\ SetLiveState(OnMessage(CurrentLiveState, m))
        /\ appliedMsgs' = IF m.type \in HandledTypes
                          THEN Append(appliedMsgs, m.seq) ELSE appliedMsgs
  /\ sockets' = [sockets EXCEPT ![s].inbox = Tail(@)]
  /\ UNCHANGED <<effects, published, isConnected>>
  /\ replayUnchanged

LiveNext ==
  \/ \E u \in Urls : HookMount(u)
  \/ HookCleanup
  \/ \E u \in Urls : HookUrlChange(u)
  \/ \E s \in DOMAIN sockets : SocketOpen(s)
  \/ \E s \in DOMAIN sockets : SocketError(s)
  \/ \E s \in DOMAIN sockets : SocketClose(s)
  \/ \E e \in DOMAIN effects : TimerFire(e)
  \/ \E u \in Urls : \E payload \in LiveUniverse : Publish(u, payload)
  \/ \E s \in DOMAIN sockets : Deliver(s)

LiveSpec == Init /\ [][LiveNext]_vars

\* ------------------------------------- the live feed beside the replay page
\* AppShell keeps the hook mounted on every route, the replay page included:
\* the feed's messages arrive whatever the replay page is doing.  Here the
\* page applies its events by scrubbing, across unmounts and re-entries.
MixUniverse == { m \in LiveUniverse : m.type \in {"whale_alert", "order_book"} }

MixNext ==
  \/ \E payload \in NavPayloads : FetchOk(payload)
  \/ FetchFail
  \/ \E k \in ScrubValues : HandleScrub(k)
  \/ Unmount
  \/ Mount
  \/ OrphanFetchOk
  \/ OrphanFetchFail
  \/ \E s \in DOMAIN sockets : SocketOpen(s)
  \/ \E s \in DOMAIN sockets : \E payload \in MixUniverse :
       Publish(sockets[s].url, payload)
  \/ \E s \in DOMAIN sockets : Deliver(s)

MixSpec == Init /\ [][MixNext]_vars

\* ------------------------------------------- the store, action by action
\* The live and the replay fields of the store as one state object
StoreFields ==
  [whaleAlerts |-> whaleAlerts, institutionalEvents |-> institutionalEvents,
   orderBook |-> orderBook, executedTrades |-> executedTrades,
   replayWhaleAlerts |-> replayWhaleAlerts,
   replayInstitutionalEvents |-> replayInstitutionalEvents,
   replayOrderBook |-> replayOrderBook]

\* zustand's set(partial): the fields of partial replace those of the state
set(state, partial) ==
  [f \in DOMAIN state |-> IF f \in DOMAIN partial THEN partial[f] ELSE state[f]]

\* Mutant: clearAlerts empties the replay alerts too
clearAlertsBoth(state) == [whaleAlerts |-> <<>>, replayWhaleAlerts |-> <<>>]

\* clearAlerts: set({ whaleAlerts: [] })
clearAlerts(state) == [whaleAlerts |-> <<>>]

\* The object each action of the store passes to set
StorePartial(name, state, arg) ==
  CASE name = "addWhaleAlert" ->
         [whaleAlerts |-> addWhaleAlert(state.whaleAlerts, arg)]
    [] name = "updateWhaleAlert" ->
         [whaleAlerts |-> updateWhaleAlert(state.whaleAlerts, arg.trade_id, arg)]
    [] name = "addInstitutionalEvent" ->
         [institutionalEvents |-> addInstitutionalEvent(state.institutionalEvents, arg)]
    [] name = "updateOrderBook" ->
         [orderBook |-> updateOrderBook(state.orderBook, arg)]
    [] name = "addExecutedTrade" ->
         [executedTrades |-> addExecutedTrade(state.executedTrades, arg)]
    [] name = "clearAlerts" -> clearAlerts(state)
    [] name = "addReplayWhaleAlert" ->
         [replayWhaleAlerts |-> addReplayWhaleAlert(state.replayWhaleAlerts, arg)]
    [] name = "updateReplayWhaleAlert" ->
         [replayWhaleAlerts |->
            updateReplayWhaleAlert(state.replayWhaleAlerts, arg.trade_id, arg)]
    [] name = "addReplayInstitutionalEvent" ->
         [replayInstitutionalEvents |->
            addReplayInstitutionalEvent(state.replayInstitutionalEvents, arg)]
    [] name = "updateReplayOrderBook" ->
         [replayOrderBook |-> updateReplayOrderBook(state.replayOrderBook, arg)]
    [] name = "resetReplayState" ->
         [replayWhaleAlerts |-> <<>>, replayInstitutionalEvents |-> <<>>,
          replayOrderBook |-> NullBook]

LiveActions ==
  {"addWhaleAlert", "updateWhaleAlert", "addInstitutionalEvent", "updateOrderBook",
   "addExecutedTrade", "clearAlerts"}
ReplayActions ==
  {"addReplayWhaleAlert", "updateReplayWhaleAlert", "addReplayInstitutionalEvent",
   "updateReplayOrderBook", "resetReplayState"}

\* The argument an action may be called with
StoreArgs(name) ==
  CASE name \in {"addWhaleAlert", "addReplayWhaleAlert"} ->
         {AlertData(1, TsBase, 150000), AlertData(2, TsBase, 700000)}
    [] name \in {"updateWhaleAlert", "updateReplayWhaleAlert"} -> {UpdateData(1, 7, 3)}
    [] name \in {"addInstitutionalEvent", "addReplayInstitutionalEvent"} ->
         {InstData("ICEBERG", TsBase)}
    [] name \in {"updateOrderBook", "updateReplayOrderBook"} ->
         {Snapshot(1, Levels1, Levels2, TsBase)}
    [] name = "addExecutedTrade" -> {TradeData(9, TsBase, 50000)}
    [] OTHER -> {NullBook}

\* One action of the store is called
StoreCall(name, arg) ==
  LET next == set(StoreFields, StorePartial(name, StoreFields, arg))
  IN /\ whaleAlerts' = next.whaleAlerts
     /\ institutionalEvents' = next.institutionalEvents
     /\ orderBook' = next.orderBook
     /\ executedTrades' = next.executedTrades
     /\ replayWhaleAlerts' = next.replayWhaleAlerts
     /\ replayInstitutionalEvents' = next.replayInstitutionalEvents
     /\ replayOrderBook' = next.replayOrderBook
     /\ lastOp' = Op(name, 0)
     /\ UNCHANGED <<pageVars, orphans, mounts, now, applyCalls, loadOutcome,
                    hookVars, bubbles, seenTrades, sceneRef, dateNow, created,
                    expired, panelVars, spaceVars, flashVars, pauseVars, scanVars, pollVars>>

StoreNext ==
  \E name \in LiveActions \cup ReplayActions : \E arg \in StoreArgs(name) :
    ops < MaxStoreCalls /\ ops' = ops + 1 /\ StoreCall(name, arg)

StoreSpec == Init /\ [][StoreNext]_vars

\* ------------------------------------------- one event through both paths
\* The events of the four types both paths handle
EquivUniverse ==
  { e \in ReplayUniverse :
      e.type \in {"whale_alert", "whale_alert_update", "institutional_execution",
                  "order_book"} }

OtherCalls == { i \in DOMAIN applyCalls : applyCalls[i].type # "institutional_execution" }

\* The next event of a sequence arrives live (the message of its type carrying
\* its data, handled by ws.onmessage) and is replayed (applyEvent), each path
\* into its own store fields.
EquivApply(e) ==
  /\ Len(applyCalls) < MaxEquivEvents
  /\ e.type # "institutional_execution" => Cardinality(OtherCalls) < MaxEquivOther
  /\ SetLiveState(OnMessage(CurrentLiveState, Msg(published + 1, e.type, e.data)))
  /\ published' = published + 1
  /\ appliedMsgs' = Append(appliedMsgs, published + 1)
  /\ SetReplayState(applyEvent(CurrentReplayState, e))
  /\ UNCHANGED <<pageMounted, fetchPending, loading, events, isPlaying, progress,
                 indexRef, startTsRef, endTsRef, virtualTimeRef, playOriginRef,
                 rafRef, frames, orphans, mounts, now, lastOp, loadOutcome,
                 effects, sockets, isConnected, bubbleVars, panelVars, spaceVars, flashVars, pauseVars, scanVars, pollVars>>

EquivNext == \E e \in EquivUniverse : EquivApply(e)

EquivSpec == Init /\ [][EquivNext]_vars

\* ------------------------------------------------------- the bubble space
\* A Bubble: of its fields the pool's bookkeeping reads id and createdAt
\* An aggression score clamp(sizeScore * 0.7 + speedScore * 0.3, 0, 1), held
\* as its two inputs: sizeScore is the logarithm to base 6 of sizeRatio, the
\* ratio of the trade's value to the average clamped to [1, 6], and is 0
\* exactly when sizeRatio is 1
Aggression(sizeRatio, speedScore) == [sizeRatio |-> sizeRatio, speedScore |-> speedScore]
Calm == Aggression(RatOne, RatZero)

\* computeAggression(tradeValue, ts) for the given avgTradeValueRef and
\* lastTradeTsRef; it leaves lastTradeTsRef = ts
computeAggression(tradeValue, ts, avgRef, lastTs) ==
  LET avg == IF avgRef.num # 0 THEN avgRef
             ELSE IF tradeValue # 0 THEN Rat(tradeValue, 1) ELSE RatOne
      ratio == Rat(tradeValue * avg.den, avg.num)
      sizeRatio == IF RatLeq(ratio, RatOne) THEN RatOne
                   ELSE IF RatLeq(Rat(6, 1), ratio) THEN Rat(6, 1) ELSE ratio
      deltaMs == IF Falsy(lastTs) THEN 1000 ELSE Max(ts - lastTs.val, 0)
      speedScore == IF deltaMs >= 500 THEN RatZero ELSE Rat(500 - deltaMs, 500)
  IN Aggression(sizeRatio, speedScore)

\* priceToY, the mid price a rational (0: unknown): 0 when mid or price is
\* 0, else clamp((price - mid) / mid * PRICE_SCALE, -PRICE_RANGE, PRICE_RANGE),
\* a reduced fraction with a signed numerator
priceToY(price, mid) ==
  IF mid.num = 0 \/ price = 0 THEN [num |-> 0, den |-> 1]
  ELSE LET n == (price * mid.den - mid.num) * PRICE_SCALE
           d == mid.num
           g == Gcd(IF n < 0 THEN 0 - n ELSE n, d)
       IN IF n >= PRICE_RANGE * d THEN [num |-> PRICE_RANGE, den |-> 1]
          ELSE IF n <= (0 - PRICE_RANGE) * d THEN [num |-> 0 - PRICE_RANGE, den |-> 1]
          ELSE [num |-> n \div g, den |-> d \div g]

\* mesh.position.y: a target height plus, once a frame has added
\* Math.sin(age / 900) * 0.06 for an age above 0, a non-zero offset
Height(target, bobbed) == [target |-> target, bobbed |-> bobbed]

\* opts of addBubble
Opts(isWhale, ageMs, aggression) ==
  [isWhale |-> isWhale, ageMs |-> ageMs, aggression |-> aggression]

\* The Bubble addBubble pushes: mesh.position.y = priceToY(trade.price),
\* createdAt = Date.now() - ageMs
Bubble(trade, opts, clock, mid) ==
  [id |-> trade.trade_id, createdAt |-> clock - opts.ageMs, price |-> trade.price,
   isWhale |-> opts.isWhale, tradeValue |-> trade.trade_value,
   aggression |-> opts.aggression, y |-> Height(priceToY(trade.price, mid), FALSE)]

\* Mutant: on overflow the entity just pushed is dropped
EvictNewest(pushed) ==
  IF Len(pushed) > MAX_BUBBLES THEN SubSeq(pushed, 1, Len(pushed) - 1) ELSE pushed

\* if (bubblesRef.current.length > MAX_BUBBLES) bubblesRef.current.shift()
EvictOverflow(pushed) ==
  IF Len(pushed) > MAX_BUBBLES THEN Tail(pushed) ELSE pushed

\* Mutant: addBubble without its seen-set check
addBubbleUnchecked(pool, seen, scene, trade, opts, clock, mid) ==
  [bubbles |-> EvictOverflow(Append(pool, Bubble(trade, opts, clock, mid))),
   seen |-> seen \cup {trade.trade_id}]

\* addBubble(trade, opts): the pool and the seen-set it leaves
addBubble(pool, seen, scene, trade, opts, clock, mid) ==
  IF trade.trade_id \in seen THEN [bubbles |-> pool, seen |-> seen]
  ELSE IF ~ scene \/ opts.ageMs >= LIFESPAN_MS
  THEN [bubbles |-> pool, seen |-> seen \cup {trade.trade_id}]
  ELSE [bubbles |-> EvictOverflow(Append(pool, Bubble(trade, opts, clock, mid))),
        seen |-> seen \cup {trade.trade_id}]

\* Mutant: animate removes at age >= LIFESPAN_MS
ReachedLifespan(bubble, clock) == clock - bubble.createdAt >= LIFESPAN_MS

\* animate: age > LIFESPAN_MS
PastLifespan(bubble, clock) == clock - bubble.createdAt > LIFESPAN_MS

\* animate's filter over bubblesRef.current; a bubble it keeps gets
\* position.y = yTarget + Math.sin(age / 900) * 0.06, yTarget being
\* priceToY(bubble.price) when the mid price is known and position.y itself
\* when it is not. (The sine of a positive whole number of ms over 900 is
\* not 0, and offsets added up over frames are sines of positive ages.)
animate(pool, clock, mid) ==
  LET keep(bubble) == ~ PastLifespan(bubble, clock)
      kept == SelectSeq(pool, keep)
      moved(bubble) ==
        IF mid.num # 0
        THEN Height(priceToY(bubble.price, mid), clock - bubble.createdAt # 0)
        ELSE Height(bubble.y.target, bubble.y.bobbed \/ clock - bubble.createdAt # 0)
  IN [i \in DOMAIN kept |-> [kept[i] EXCEPT !.y = moved(kept[i])]]

\* opts.ageMs = now - timestamp of the trade: fresh, one clock step old, just
\* inside the lifespan, at the lifespan
AgeChoices == {0, ClockStep, LIFESPAN_MS - 1, LIFESPAN_MS}

otherUnchanged ==
  UNCHANGED <<liveVars, replayStoreVars, pageVars, orphans, mounts, now, applyCalls,
              loadOutcome, hookVars, panelVars, flashVars, pauseVars, scanVars, pollVars>>

\* A call of addBubble for a trade of the given id and age
AddBubble(tradeId, ageMs) ==
  LET out == addBubble(bubbles, seenTrades, sceneRef,
                       TradeData(tradeId, dateNow - ageMs, 50000),
                       Opts(FALSE, ageMs, Calm), dateNow, midPriceRef)
  IN /\ bubbles' = out.bubbles
     /\ seenTrades' = out.seen
     /\ created' = IF tradeId \notin seenTrades /\ sceneRef /\ ageMs < LIFESPAN_MS
                   THEN Append(created, tradeId) ELSE created
     /\ lastOp' = Op("addBubble", tradeId)
     /\ UNCHANGED <<sceneRef, dateNow, expired, spaceVars>>
     /\ otherUnchanged

\* A frame: animate at the current Date.now()
Animate ==
  /\ bubbles' = animate(bubbles, dateNow, midPriceRef)
  /\ expired' = (expired \/ Len(animate(bubbles, dateNow, midPriceRef)) < Len(bubbles))
  /\ lastOp' = Op("animate", 0)
  /\ UNCHANGED <<seenTrades, sceneRef, dateNow, created, spaceVars>>
  /\ otherUnchanged

\* Date.now() moves on
BubbleAdvance ==
  /\ dateNow < BubbleT0 + MaxBubbleClock * ClockStep
  /\ dateNow' = dateNow + ClockStep
  /\ lastOp' = Op("clock", 0)
  /\ UNCHANGED <<bubbles, seenTrades, sceneRef, created, expired, spaceVars>>
  /\ otherUnchanged

\* resetBubbles
ResetBubbles ==
  /\ bubbles' = <<>>
  /\ seenTrades' = {}
  /\ created' = <<>>
  /\ expired' = FALSE
  /\ lastTradeTsRef' = Null
  /\ lastOp' = Op("resetBubbles", 0)
  /\ UNCHANGED <<sceneRef, dateNow, focusMode, midPriceRef, avgTradeValueRef, scored>>
  /\ otherUnchanged

\* The pool under any interleaving of its operations, few trades
BubbleNext ==
  /\ UNCHANGED ops
  /\ \/ \E tradeId \in 1..MaxTradeIds : \E ageMs \in AgeChoices : AddBubble(tradeId, ageMs)
     \/ Animate
     \/ BubbleAdvance
     \/ ResetBubbles

BubbleSpec == Init /\ [][BubbleNext]_vars

\* The pool filled to its capacity: the first FreeHead operations and those
\* after MAX_BUBBLES operations are any, the ones between spawn fresh trades
\* of new ids
NextFresh == Cardinality(seenTrades) + 1
CapFree == ops < FreeHead \/ ops >= MAX_BUBBLES

CapNext ==
  /\ ops < MAX_BUBBLES + MaxOverflow
  /\ ops' = ops + 1
  /\ \/ AddBubble(NextFresh, 0)
     \/ CapFree /\ \E ageMs \in AgeChoices \ {0} : AddBubble(NextFresh, ageMs)
     \/ CapFree /\ seenTrades # {} /\ AddBubble(1, 0)
     \/ CapFree /\ Animate
     \/ CapFree /\ BubbleAdvance
     \/ CapFree /\ ResetBubbles

CapSpec == Init /\ [][CapNext]_vars

\* ------------------------------------- the bubble space fed by the store
\* getAlertTimestampMs: Date.parse of the ISO string, null when it is NaN.  A
\* timestamp is held as its epoch milliseconds, a string Date.parse rejects
\* as Undefined.
getAlertTimestampMs(iso) == IF iso = Undefined THEN Null ELSE Some(iso)

\* The sort key of hydrateFromTrades and of the spawn effect: parsed ?? 0
SortKey(trade) ==
  LET parsed == getAlertTimestampMs(trade.timestamp)
  IN IF parsed.isNull THEN 0 ELSE parsed.val

\* .sort((a, b) => aTs - bTs): a stable sort by the key
RECURSIVE SortTrades(_)
SortTrades(list) ==
  IF Len(list) = 0 THEN <<>>
  ELSE LET last == list[Len(list)]
           front == SortTrades(SubSeq(list, 1, Len(list) - 1))
           before(t) == SortKey(t) <= SortKey(last)
           after(t) == SortKey(t) > SortKey(last)
       IN SelectSeq(front, before) \o <<last>> \o SelectSeq(front, after)

\* source.forEach: ts = getAlertTimestampMs(trade.timestamp) ?? now,
\* ageMs = now - ts, isWhale = focusMode === 'whales' || trade_value >=
\* WHALE_THRESHOLD, aggression = computeAggression(trade_value, ts),
\* addBubble(trade, {isWhale, ageMs, aggression}). st holds the pool, the
\* seen-set, lastTradeTsRef and the computeAggression calls made so far.
RECURSIVE SpawnEach(_, _, _, _, _, _)
SpawnEach(st, source, clock, mode, avg, mid) ==
  IF Len(source) = 0 THEN st
  ELSE LET trade == Head(source)
           parsed == getAlertTimestampMs(trade.timestamp)
           ts == IF parsed.isNull THEN clock ELSE parsed.val
           isWhale == mode = "whales" \/ trade.trade_value >= WHALE_THRESHOLD
           aggression == computeAggression(trade.trade_value, ts, avg, st.lastTs)
           out == addBubble(st.bubbles, st.seen, sceneRef, trade,
                            Opts(isWhale, clock - ts, aggression), clock, mid)
       IN SpawnEach([bubbles |-> out.bubbles, seen |-> out.seen, lastTs |-> Some(ts),
                     scored |-> Append(st.scored, [id |-> trade.trade_id, ts |-> ts])],
                    Tail(source), clock, mode, avg, mid)

\* The source of hydrateFromTrades and of the spawn effect
SourceOf(mode, trades, alerts) ==
  SortTrades(Take(IF mode = "whales" THEN alerts ELSE trades, TradeCap))

\* hydrateFromTrades
hydrateFromTrades(st, trades, alerts, clock, mode, avg, mid) ==
  SpawnEach(st, SourceOf(mode, trades, alerts), clock, mode, avg, mid)

\* Mutant: the commit runs the spawn effect only, on the pool as it is
RerenderNoReset(trades, alerts, clock, mode, avg, mid) ==
  SpawnEach([bubbles |-> bubbles, seen |-> seenTrades, lastTs |-> lastTradeTsRef,
             scored |-> <<>>],
            SourceOf(mode, trades, alerts), clock, mode, avg, mid)

\* The effects of a commit in which executedTrades, whaleAlerts or focusMode
\* changed, in the order of their declaration: the focus effect, whose
\* dependency hydrateFromTrades is a new function, runs resetBubbles() and
\* hydrateFromTrades(); then the spawn effect runs over the same source.
Rerender(trades, alerts, clock, mode, avg, mid) ==
  LET cleared == [bubbles |-> <<>>, seen |-> {}, lastTs |-> Null, scored |-> <<>>]
      hydrated == hydrateFromTrades(cleared, trades, alerts, clock, mode, avg, mid)
  IN SpawnEach(hydrated, SourceOf(mode, trades, alerts), clock, mode, avg, mid)

SetSpace(out) ==
  /\ bubbles' = out.bubbles
  /\ seenTrades' = out.seen
  /\ lastTradeTsRef' = out.lastTs
  /\ scored' = out.scored
  /\ created' = [i \in DOMAIN out.bubbles |-> out.bubbles[i].id]
  /\ expired' = FALSE

\* The average effect: the mean trade_value of the first 200 executedTrades,
\* 1 when that is 0
RECURSIVE SumValues(_)
SumValues(trades) ==
  IF Len(trades) = 0 THEN 0 ELSE Head(trades).trade_value + SumValues(Tail(trades))

averageEffect(trades) ==
  LET values == Take(trades, TradeCap)
      sum == SumValues(values)
  IN IF sum = 0 THEN RatOne ELSE Rat(sum, Len(values))

\* getMidPrice(snapshot): 0 for no snapshot or a missing best bid or ask
getMidPrice(snapshot) ==
  LET bestBid == IF snapshot.isNull \/ Len(snapshot.bids) = 0 THEN 0
                 ELSE snapshot.bids[1][1]
      bestAsk == IF snapshot.isNull \/ Len(snapshot.asks) = 0 THEN 0
                 ELSE snapshot.asks[1][1]
  IN IF bestBid = 0 \/ bestAsk = 0 THEN RatZero ELSE Rat(bestBid + bestAsk, 2)

\* The trades the feed may deliver: a timestamp that does not parse, one a
\* lifespan before the mount, the mount's
TradeUniverse ==
  { TradeData(id, ts, 50000) :
      id \in 1..MaxTradeIds, ts \in {Undefined, BubbleT0 - LIFESPAN_MS, BubbleT0} }

\* A trade message is applied to the store and the bubble space re-renders
TradeArrives(trade) ==
  LET trades == addExecutedTrade(executedTrades, trade)
      avg == averageEffect(trades)
  IN /\ executedTrades' = trades
     /\ avgTradeValueRef' = avg
     /\ SetSpace(Rerender(trades, whaleAlerts, dateNow, focusMode, avg, midPriceRef))
     /\ lastOp' = Op("trade", trade.trade_id)
     /\ UNCHANGED <<whaleAlerts, institutionalEvents, orderBook, sceneRef, dateNow,
                    ops, replayStoreVars, pageVars, orphans, mounts, now,
                    applyCalls, loadOutcome, hookVars, panelVars, focusMode,
                    midPriceRef, flashVars, pauseVars, scanVars, pollVars>>

\* A whale alert is applied to the store and the bubble space re-renders
AlertArrives(alert) ==
  LET alerts == addWhaleAlert(whaleAlerts, alert)
  IN /\ whaleAlerts' = alerts
     /\ SetSpace(Rerender(executedTrades, alerts, dateNow, focusMode,
                          avgTradeValueRef, midPriceRef))
     /\ lastOp' = Op("whale_alert", alert.trade_id)
     /\ UNCHANGED <<executedTrades, institutionalEvents, orderBook, sceneRef,
                    dateNow, ops, replayStoreVars, pageVars, orphans, mounts, now,
                    applyCalls, loadOutcome, hookVars, panelVars, focusMode,
                    midPriceRef, avgTradeValueRef, flashVars, pauseVars, scanVars, pollVars>>

\* An order book is applied to the store; the mid-price effect of the bubble
\* space runs: if (newMid) midPriceRef.current = newMid
OrderBookArrives(snapshot) ==
  /\ orderBook' = updateOrderBook(orderBook, snapshot)
  /\ midPriceRef' = IF getMidPrice(snapshot).num # 0 THEN getMidPrice(snapshot)
                    ELSE midPriceRef
  /\ lastOp' = Op("order_book", snapshot.last_update_id)
  /\ UNCHANGED <<whaleAlerts, institutionalEvents, executedTrades, bubbleVars,
                 replayStoreVars, pageVars, orphans, mounts, now, applyCalls,
                 loadOutcome, hookVars, panelVars, focusMode, avgTradeValueRef,
                 lastTradeTsRef, scored, flashVars, pauseVars, scanVars, pollVars>>

\* A focus button is clicked: setFocusMode(mode), and the bubble space
\* re-renders when the mode changed
SetFocusMode(mode) ==
  /\ mode # focusMode
  /\ focusMode' = mode
  /\ SetSpace(Rerender(executedTrades, whaleAlerts, dateNow, mode,
                       avgTradeValueRef, midPriceRef))
  /\ lastOp' = Op("setFocusMode", IF mode = "whales" THEN 1 ELSE 0)
  /\ UNCHANGED <<liveVars, sceneRef, dateNow, ops, replayStoreVars, pageVars,
                 orphans, mounts, now, applyCalls, loadOutcome, hookVars,
                 panelVars, midPriceRef, avgTradeValueRef, flashVars, pauseVars, scanVars, pollVars>>

\* The values of the trades of the focus scenario, by trade id: three trades
\* of $50k, $60k and $700k, one at the whale threshold, and one that is a
\* lifespan old at the mount
FocusValues == <<50000, 60000, 700000, 100000, 50000>>
FocusStamp(id) == IF id = 5 THEN BubbleT0 - LIFESPAN_MS ELSE BubbleT0

\* The trades and the alerts the feed may deliver there; an alert for one of
\* the two large trades
FocusTrades ==
  { TradeData(id, FocusStamp(id), FocusValues[id]) : id \in DOMAIN FocusValues }
FocusAlerts == { AlertData(id, FocusStamp(id), FocusValues[id]) : id \in {3, 4} }

\* The bubble space under trades, alerts and focus switches, no order book
FocusNext ==
  /\ UNCHANGED ops
  /\ \/ \E trade \in FocusTrades :
          Len(executedTrades) < MaxTrades /\ TradeArrives(trade)
     \/ \E alert \in FocusAlerts : Len(whaleAlerts) < MaxAlerts /\ AlertArrives(alert)
     \/ \E mode \in {"all", "whales"} : SetFocusMode(mode)
     \/ Animate
     \/ BubbleAdvance

FocusSpec == Init /\ [][FocusNext]_vars

\* The order books the feed may deliver to the bubble space: best bid 100 and
\* best ask 110, best bid 90 and best ask 100, bids only, no level at all
MidBooks ==
  { Snapshot(1, << <<100, 1>> >>, << <<110, 1>> >>, BubbleT0),
    Snapshot(2, << <<90, 1>> >>, << <<100, 1>> >>, BubbleT0),
    Snapshot(3, << <<100, 1>> >>, <<>>, BubbleT0),
    Snapshot(4, <<>>, <<>>, BubbleT0) }

\* The bubble space under trades and order books
MidNext ==
  /\ UNCHANGED ops
  /\ \/ \E trade \in TradeUniverse :
          Len(executedTrades) < MaxTrades /\ TradeArrives(trade)
     \/ \E snapshot \in MidBooks : OrderBookArrives(snapshot)
     \/ Animate
     \/ BubbleAdvance

MidSpec == Init /\ [][MidNext]_vars

SpaceNext ==
  \/ \E trade \in TradeUniverse :
       Len(executedTrades) < MaxTrades /\ TradeArrives(trade)
  \/ Animate /\ UNCHANGED ops
  \/ BubbleAdvance /\ UNCHANGED ops

SpaceSpec == Init /\ [][SpaceNext]_vars

\* ------------------------------------------------------ the bounded buffers
\* Array.prototype.slice(-n)
SliceLast(list, n) == SubSeq(list, Max(1, Len(list) - n + 1), Len(list))

\* A PatternMarker; of its fields the list's bookkeeping reads ts
Marker(id, ts) == [id |-> id, ts |-> ts]

\* Mutant: the markers are appended without the slice
setPatternsUncapped(prev, markers, clock) ==
  LET active(marker) == clock - marker.ts <= PatternWindowMs
  IN SelectSeq(prev, active) \o markers

\* setPatterns((prev) => [...active, ...markers].slice(-6))
setPatterns(prev, markers, clock) ==
  LET active(marker) == clock - marker.ts <= PatternWindowMs
  IN SliceLast(SelectSeq(prev, active) \o markers, PatternCap)

\* The pattern scan's interval fires, PatternScanMs after the last time; the
\* scan of the trade window yields m markers stamped with the time of the scan
PatternScan(m) ==
  LET clock == dateNow + PatternScanMs
      markers == [i \in 1..m |-> Marker(Len(addedPatterns) + i, clock)]
  IN /\ dateNow' = clock
     /\ patterns' = setPatterns(patterns, markers, clock)
     /\ addedPatterns' = addedPatterns \o markers
     /\ lastOp' = Op("scan", m)
     /\ UNCHANGED <<liveVars, replayStoreVars, pageVars, orphans, mounts, now,
                    applyCalls, loadOutcome, hookVars, bubbles, seenTrades,
                    sceneRef, created, expired, ops, ripples, seenRipple,
                    spaceVars, flashVars, pauseVars, scanVars, pollVars>>

\* The ripple effect of OrderBookPanel for the newest alert of the store
rippleEffect(prev, seen, alerts, clock) ==
  IF Len(alerts) = 0 \/ alerts[1].trade_id \in seen
  THEN [ripples |-> prev, seen |-> seen]
  ELSE [ripples |-> Take(<<Marker(alerts[1].trade_id, clock)>> \o prev, RippleCap),
        seen |-> seen \cup {alerts[1].trade_id}]

\* A message of the feed is applied to the store on a page that shows
\* OrderBookPanel with whale markers enabled; the panel re-renders and its
\* ripple effect runs. (The re-render of the bubble space, on the page that
\* mounts it, is TradeArrives.)
MessageArrives(type, body) ==
  LET st == OnMessage(CurrentLiveState, Msg(0, type, body))
      out == rippleEffect(ripples, seenRipple, st.alerts, dateNow)
  IN /\ SetLiveState(st)
     /\ ripples' = out.ripples
     /\ seenRipple' = out.seen
     /\ lastOp' = Op(type, body.trade_id)
     /\ UNCHANGED <<replayStoreVars, pageVars, orphans, mounts, now, applyCalls,
                    loadOutcome, hookVars, bubbleVars, patterns, addedPatterns,
                    spaceVars, flashVars, pauseVars, scanVars, pollVars>>

\* An event of a timeline is applied by the replay page
ReplayEventApplied(event) ==
  /\ SetReplayState(applyEvent(CurrentReplayState, event))
  /\ lastOp' = Op("applyEvent", event.ts)
  /\ UNCHANGED <<liveVars, pageMounted, fetchPending, loading, events, isPlaying,
                 progress, indexRef, startTsRef, endTsRef, virtualTimeRef,
                 playOriginRef, rafRef, frames, orphans, mounts, now, loadOutcome,
                 hookVars, bubbleVars, panelVars, spaceVars, flashVars, pauseVars, scanVars, pollVars>>

\* How many entries each buffer has been given: the k-th entry added to a list
\* carries the id k
HeadId(list) == IF Len(list) = 0 THEN 0 ELSE list[1].trade_id
Scans == (dateNow - BubbleT0) \div PatternScanMs
Added == <<HeadId(executedTrades), HeadId(whaleAlerts), HeadId(replayWhaleAlerts), Scans>>

\* Buffer b may be given its next entry: it is below its run length and the
\* other buffers are short
MayAdd(b, runLength) ==
  /\ Added[b] < runLength
  /\ \A c \in DOMAIN Added : c # b => Added[c] <= MaxMixed

BufferNext ==
  \/ /\ MayAdd(1, TradeCap + MaxOverflow)
     /\ MessageArrives("trade", TradeData(HeadId(executedTrades) + 1, BubbleT0, 50000))
  \/ /\ MayAdd(2, LiveAlertCap + MaxOverflow)
     /\ MessageArrives("whale_alert", AlertData(HeadId(whaleAlerts) + 1, BubbleT0, 150000))
  \/ /\ MayAdd(3, ReplayAlertCap + MaxOverflow)
     /\ ReplayEventApplied(Ev(TsBase, "whale_alert",
                              AlertData(HeadId(replayWhaleAlerts) + 1, TsBase, 150000)))
  \/ /\ MayAdd(4, MaxScans)
     /\ \E m \in {0, 1, MaxMarkers} : PatternScan(m)

BufferSpec == Init /\ [][BufferNext]_vars

\* ------------------------------------------------- the pattern scan's timer
\* The pattern effect of WhaleBubbleSpace sets a 2 s interval and clears it in
\* its cleanup; its one dependency is executedTrades.  Runs are endless here,
\* so time is kept relative to the present: dateNow stands for the present and
\* the ts of a marker moves back as time passes, down to a floor beyond the
\* 5 s window (the list reads now - marker.ts only).
AgedMarker(marker, ms) ==
  [marker EXCEPT !.ts = Max(@ - ms, dateNow - PatternWindowMs - ScanStep)]

\* Time passes while the interval is not due
ScanWait ==
  /\ scanElapsed < PatternScanMs
  /\ scanElapsed' = Min(scanElapsed + ScanStep, PatternScanMs)
  /\ patterns' = [i \in DOMAIN patterns |-> AgedMarker(patterns[i], ScanStep)]
  /\ lastOp' = Op("wait", 0)
  /\ UNCHANGED <<liveVars, replayStoreVars, pageVars, orphans, mounts, now,
                 applyCalls, loadOutcome, hookVars, bubbleVars, addedPatterns,
                 ripples, seenRipple, spaceVars, flashVars, pauseVars, pollVars>>

\* The interval fires, PatternScanMs after it was set or fired last: the scan
\* of the trade window yields m markers stamped now, and setPatterns runs
ScanFires(m) ==
  LET markers == [i \in 1..m |-> Marker(Len(addedPatterns) + i, dateNow)]
  IN /\ scanElapsed = PatternScanMs
     /\ Len(addedPatterns) + m <= MaxScanMarkers
     /\ scanElapsed' = 0
     /\ patterns' = setPatterns(patterns, markers, dateNow)
     /\ addedPatterns' = addedPatterns \o markers
     /\ lastOp' = Op("scan", m)
     /\ UNCHANGED <<liveVars, replayStoreVars, pageVars, orphans, mounts, now,
                    applyCalls, loadOutcome, hookVars, bubbleVars, ripples,
                    seenRipple, spaceVars, flashVars, pauseVars, pollVars>>

ScanFiresSome == \E m \in {0, 1} : ScanFires(m)

\* The trade the feed delivers there
ScanTrade == TradeData(1, BubbleT0, 50000)

\* A trade is applied to the store.  executedTrades is a new array, so in the
\* commit the pattern effect's cleanup clears the interval and the effect sets
\* a new one: the 2 s start again.  (The same commit's hydrate, spawn and
\* average effects are TradeArrives; they touch neither the interval nor the
\* markers.)
PatternEffectReruns ==
  /\ executedTrades' = addExecutedTrade(executedTrades, ScanTrade)
  /\ scanElapsed' = 0
  /\ lastOp' = Op("trade", ScanTrade.trade_id)
  /\ UNCHANGED <<whaleAlerts, institutionalEvents, orderBook, replayStoreVars,
                 pageVars, orphans, mounts, now, applyCalls, loadOutcome,
                 hookVars, bubbleVars, panelVars, spaceVars, flashVars,
                 pauseVars, pollVars>>

ScanNext ==
  \/ ScanWait
  \/ ScanFiresSome
  \/ PatternEffectReruns

\* Time passes and a due interval fires; the feed is free to send or not
ScanSpec ==
  Init /\ [][ScanNext]_vars /\ WF_vars(ScanWait) /\ WF_vars(ScanFiresSome)

\* -------------------------------------------- the live order book's writers
\* useWebSocket writes the store's orderBook from two sources: the socket's
\* order_book messages (onmessage) and the poll of /api/order-book, which
\* the third effect of the hook starts at mount and repeats every 5 s.
\* The backend's book with last_update_id uid; its timestamp grows with it
ServerSnapshot(uid) == Snapshot(uid, Levels1, Levels2, TsBase + uid)

\* The backend has a new order book and sends it on the socket
BookChanges ==
  /\ serverBook < MaxBookIds
  /\ serverBook' = serverBook + 1
  /\ wsInbox' = Append(wsInbox, Msg(serverBook + 1, "order_book",
                                     ServerSnapshot(serverBook + 1)))
  /\ lastOp' = Op("book", serverBook + 1)
  /\ UNCHANGED <<liveVars, replayStoreVars, pageVars, orphans, mounts, now,
                 applyCalls, loadOutcome, hookVars, bubbleVars, panelVars,
                 spaceVars, flashVars, pauseVars, scanVars, pollRequests,
                 pollResponses>>

\* ws.onmessage for the next order_book message of the socket
WsOrderBook ==
  /\ wsInbox # <<>>
  /\ SetLiveState(OnMessage(CurrentLiveState, Head(wsInbox)))
  /\ wsInbox' = Tail(wsInbox)
  /\ lastOp' = Op("ws_order_book", Head(wsInbox).seq)
  /\ UNCHANGED <<replayStoreVars, pageVars, orphans, mounts, now, applyCalls,
                 loadOutcome, hookVars, bubbleVars, panelVars, spaceVars,
                 flashVars, pauseVars, scanVars, serverBook, pollRequests,
                 pollResponses>>

\* fetchOrderBook is called, by the effect at mount or by its 5 s interval,
\* whether or not an earlier call is still waiting: the request is sent
PollSent ==
  /\ pollRequests + Len(pollResponses) < MaxInFlight
  /\ pollRequests' = pollRequests + 1
  /\ lastOp' = Op("poll", 0)
  /\ UNCHANGED <<liveVars, replayStoreVars, pageVars, orphans, mounts, now,
                 applyCalls, loadOutcome, hookVars, bubbleVars, panelVars,
                 spaceVars, flashVars, pauseVars, scanVars, serverBook, wsInbox,
                 pollResponses>>

\* The answer to a poll: res.ok, payload.success, and payload.data, the book
\* the backend had when it answered (none before its first)
PollPayload(ok, uid) ==
  [ok |-> ok, success |-> TRUE,
   data |-> IF uid = 0 THEN NullBook ELSE ServerSnapshot(uid)]

\* The backend answers a poll with the book it has
PollAnswered(ok) ==
  /\ pollRequests > 0
  /\ pollRequests' = pollRequests - 1
  /\ pollResponses' = Append(pollResponses, PollPayload(ok, serverBook))
  /\ lastOp' = Op("answer", serverBook)
  /\ UNCHANGED <<liveVars, replayStoreVars, pageVars, orphans, mounts, now,
                 applyCalls, loadOutcome, hookVars, bubbleVars, panelVars,
                 spaceVars, flashVars, pauseVars, scanVars, serverBook, wsInbox>>

\* fetchOrderBook after its awaits: if (!res.ok) return; if (payload.success
\* && payload.data) updateOrderBook(payload.data)
fetchOrderBook(book, payload) ==
  IF payload.ok /\ payload.success /\ ~payload.data.isNull
  THEN updateOrderBook(book, payload.data)
  ELSE book

\* One of the answers on their way reaches the page: fetchOrderBook resumes
PollResolves(i) ==
  /\ orderBook' = fetchOrderBook(orderBook, pollResponses[i])
  /\ pollResponses' = SubSeq(pollResponses, 1, i - 1)
                        \o SubSeq(pollResponses, i + 1, Len(pollResponses))
  /\ lastOp' = Op("poll_resolved", i)
  /\ UNCHANGED <<whaleAlerts, institutionalEvents, executedTrades,
                 replayStoreVars, pageVars, orphans, mounts, now, applyCalls,
                 loadOutcome, hookVars, bubbleVars, panelVars, spaceVars,
                 flashVars, pauseVars, scanVars, serverBook, wsInbox,
                 pollRequests>>

PollNext ==
  \/ BookChanges
  \/ WsOrderBook
  \/ PollSent
  \/ \E ok \in BOOLEAN : PollAnswered(ok)
  \/ \E i \in DOMAIN pollResponses : PollResolves(i)

PollSpec == Init /\ [][PollNext]_vars

\* ------------------------------------------------------ the order book panel
\* Numbers: a price is a whole number of USD, a quantity a whole number of
\* 1/QtyDen units, and a level is <<price, quantity>>; parseFloat of the
\* level's two decimal strings yields the two numbers.
\* snapshot.bids.slice(0, depth).map(parse)
ParseLevels(levels) ==
  [i \in 1..Min(Len(levels), depth) |-> [price |-> levels[i][1], qty |-> levels[i][2]]]

PanelBids(snapshot) == IF snapshot.isNull THEN <<>> ELSE ParseLevels(snapshot.bids)
PanelAsks(snapshot) == IF snapshot.isNull THEN <<>> ELSE ParseLevels(snapshot.asks)

RECURSIVE SumQty(_)
SumQty(levels) == IF Len(levels) = 0 THEN 0 ELSE Head(levels).qty + SumQty(Tail(levels))

\* Mutant: the difference is divided by the bid total
imbalanceOverBids(snapshot) ==
  LET totalBidQty == SumQty(PanelBids(snapshot))
      totalAskQty == SumQty(PanelAsks(snapshot))
  IN Rat(totalBidQty - totalAskQty, Max(totalBidQty, QtyDen))

\* imbalance = (totalBidQty - totalAskQty) / Math.max(totalBidQty + totalAskQty, 1)
imbalance(snapshot) ==
  LET totalBidQty == SumQty(PanelBids(snapshot))
      totalAskQty == SumQty(PanelAsks(snapshot))
  IN Rat(totalBidQty - totalAskQty, Max(totalBidQty + totalAskQty, QtyDen))

\* Math.round(a / b) for a >= 0, b > 0
RoundDiv(a, b) == (2 * a + b) \div (2 * b)

\* midPrice = bestAsk && bestBid ? (bestAsk + bestBid) / 2 : 0
midPrice(snapshot) ==
  LET bids == PanelBids(snapshot)
      asks == PanelAsks(snapshot)
      bestBid == IF Len(bids) = 0 THEN 0 ELSE bids[1].price
      bestAsk == IF Len(asks) = 0 THEN 0 ELSE asks[1].price
  IN IF bestAsk # 0 /\ bestBid # 0 THEN Rat(bestAsk + bestBid, 2) ELSE RatZero

\* bucketSize = midPrice > 0 ? Math.max(Math.round(midPrice * 0.001), 10) : 10
bucketSize(snapshot) ==
  LET bids == PanelBids(snapshot)
      asks == PanelAsks(snapshot)
      bestBid == IF Len(bids) = 0 THEN 0 ELSE bids[1].price
      bestAsk == IF Len(asks) = 0 THEN 0 ELSE asks[1].price
  IN IF bestAsk # 0 /\ bestBid # 0 /\ bestAsk + bestBid > 0
     THEN Max(RoundDiv(bestAsk + bestBid, 2000), 10)
     ELSE 10

\* Math.round(level.price / bucketSize) * bucketSize
BucketOf(price, size) == RoundDiv(price, size) * size

\* buckets.set(bucket, (buckets.get(bucket) || 0) + level.qty) over the
\* levels, the Map keeping its keys in the order of their first insertion
RECURSIVE Buckets(_, _)
Buckets(levels, size) ==
  IF Len(levels) = 0 THEN <<>>
  ELSE LET front == Buckets(SubSeq(levels, 1, Len(levels) - 1), size)
           level == levels[Len(levels)]
           bucket == BucketOf(level.price, size)
       IN IF \E i \in DOMAIN front : front[i].price = bucket
          THEN [i \in DOMAIN front |->
                  IF front[i].price = bucket
                  THEN [front[i] EXCEPT !.qty = @ + level.qty] ELSE front[i]]
          ELSE Append(front, [price |-> bucket, qty |-> level.qty])

\* .sort((a, b) => b.qty - a.qty): a stable sort, largest quantity first
RECURSIVE SortByQty(_)
SortByQty(walls) ==
  IF Len(walls) = 0 THEN <<>>
  ELSE LET front == SortByQty(SubSeq(walls, 1, Len(walls) - 1))
           last == walls[Len(walls)]
           before(w) == w.qty >= last.qty
           after(w) == w.qty < last.qty
       IN SelectSeq(front, before) \o <<last>> \o SelectSeq(front, after)

bucketize(levels, size) == Take(SortByQty(Buckets(levels, size)), 4)

\* The quantities computeHighlight accumulates for one bucket: one sample for
\* each of the first `depth` levels of each history snapshot that falls in it
RECURSIVE Samples(_, _, _, _)
Samples(history, side, size, bucket) ==
  IF Len(history) = 0 THEN <<>>
  ELSE LET snap == Head(history)
           parsed == ParseLevels(IF side = "bid" THEN snap.bids ELSE snap.asks)
           inBucket(level) == BucketOf(level.price, size) = bucket
       IN SelectSeq(parsed, inBucket) \o Samples(Tail(history), side, size, bucket)

RECURSIVE SumSq(_)
SumSq(levels) ==
  IF Len(levels) = 0 THEN 0 ELSE Head(levels).qty * Head(levels).qty + SumSq(Tail(levels))

\* An intensity is a number in [0, 1] whose square is rational; it is
\* represented by its square. With n samples of sum S and sum of squares Q,
\* mean = S/n and variance = (n*Q - S*S)/(n*n), so for qty > mean
\* (z/3)^2 = (n*qty - S)^2 / (9 * (n*Q - S*S)).
\* Mutant: Math.min(z / 3, 1) is left out
IntensityUnclamped(qty, samples) ==
  LET n == Len(samples)
      nVar == n * SumSq(samples) - SumQty(samples) * SumQty(samples)
      nDev == n * qty - SumQty(samples)
  IN IF n < 2 \/ nVar <= 0 \/ nDev <= 0 THEN RatZero
     ELSE Rat(nDev * nDev, 9 * nVar)

\* Mutant: the test std <= 0 is left out, the division by 0 yields Infinity
IntensityNoStdGuard(qty, samples) ==
  LET n == Len(samples)
      nVar == n * SumSq(samples) - SumQty(samples) * SumQty(samples)
      nDev == n * qty - SumQty(samples)
  IN IF n < 2 \/ nDev <= 0 THEN RatZero
     ELSE IF nVar <= 0 \/ nDev * nDev >= 9 * nVar THEN RatOne
     ELSE Rat(nDev * nDev, 9 * nVar)

\* The body of walls.forEach: entry.count < 2 -> 0; std <= 0 -> 0; else
\* Math.max(0, Math.min(z / 3, 1))
Intensity(qty, samples) ==
  LET n == Len(samples)
      nVar == n * SumSq(samples) - SumQty(samples) * SumQty(samples)
      nDev == n * qty - SumQty(samples)
  IN IF n < 2 \/ nVar <= 0 \/ nDev <= 0 THEN RatZero
     ELSE IF nDev * nDev >= 9 * nVar THEN RatOne
     ELSE Rat(nDev * nDev, 9 * nVar)

\* computeHighlight: the Map from the walls' buckets to their intensities,
\* empty when the history has fewer than 2 snapshots
computeHighlight(walls, side, history, size) ==
  IF Len(history) < 2 \/ size <= 0 THEN <<>>
  ELSE [bucket \in {walls[i].price : i \in DOMAIN walls} |->
          LET wall == CHOOSE w \in {walls[i] : i \in DOMAIN walls} : w.price = bucket
          IN Intensity(wall.qty, Samples(history, side, size, bucket))]

\* highlights.get(wall.price) ?? 0
HighlightOf(highlights, bucket) ==
  IF bucket \in DOMAIN highlights THEN highlights[bucket] ELSE RatZero

\* isWall = intensity >= 0.35, on the square: 0.35^2 = 49/400
isWall(intensity) == RatLeq(Rat(49, 400), intensity)

\* What the replay page renders: OrderBookPanel with snapshot =
\* replayOrderBook and highlightHistory = orderBookHistory.map(entry.data)
HighlightHistory == [i \in DOMAIN orderBookHistory |-> orderBookHistory[i].data]
BidWalls == bucketize(PanelBids(replayOrderBook), bucketSize(replayOrderBook))
BidHighlights ==
  computeHighlight(BidWalls, "bid", HighlightHistory, bucketSize(replayOrderBook))

\* The order-book events a timeline may hold: the scenario's bucket at 10 and
\* at 100 units, two levels in one bucket and no asks, half a unit and an ask
\* level of quantity 0; the second comes early or late
Book(bids, asks, gap) == [bids |-> bids, asks |-> asks, gap |-> gap]
BookUniverse ==
  { Book(<< <<100, 10 * QtyDen>> >>, << <<110, 10 * QtyDen>> >>, HistoryGapMs),
    Book(<< <<100, 100 * QtyDen>> >>, << <<110, 10 * QtyDen>> >>, HistoryGapMs),
    Book(<< <<100, 100 * QtyDen>> >>, << <<110, 10 * QtyDen>> >>, HistoryGapMs - 1),
    Book(<< <<100, 10 * QtyDen>>, <<104, 10 * QtyDen>> >>, <<>>, HistoryGapMs),
    Book(<< <<100, 1>> >>, << <<110, 0>> >>, HistoryGapMs) }

LastEventTs == IF Len(applyCalls) = 0 THEN TsBase ELSE applyCalls[Len(applyCalls)].ts

\* ------------------------------------------- the flashes of the panel
\* price.toFixed(2), a price held in thousandths: the nearest hundredth
toFixed2(price) == (price + 5) \div 10

\* `${side}-${price.toFixed(2)}`
LevelKey(side, price) == [side |-> side, price |-> toFixed2(price)]

\* Map.prototype.set on a Map held as a function
MapSet(map, key, value) ==
  [k \in DOMAIN map \cup {key} |-> IF k = key THEN value ELSE map[k]]

\* Mutant: updateLevel without the test previous !== undefined
updateLevelNoPrior(acc, prev, side, level, clock) ==
  LET key == LevelKey(side, level.price)
      changed == key \notin DOMAIN prev \/ prev[key] # level.qty
      dir == IF key \in DOMAIN prev /\ level.qty <= prev[key] THEN "down" ELSE "up"
  IN [levels |-> MapSet(acc.levels, key, level.qty),
      flashes |-> IF changed THEN MapSet(acc.flashes, key, [dir |-> dir, ts |-> clock])
                  ELSE acc.flashes,
      recorded |-> IF changed THEN acc.recorded \cup {key} ELSE acc.recorded]

\* updateLevel(side, price, qty): acc holds nextLevels, nextFlashes and
\* (ghost) the keys set in nextFlashes; prev is lastLevelsRef.current
updateLevel(acc, prev, side, level, clock) ==
  LET key == LevelKey(side, level.price)
      changed == key \in DOMAIN prev /\ prev[key] # level.qty
      dir == IF key \in DOMAIN prev /\ level.qty > prev[key] THEN "up" ELSE "down"
  IN [levels |-> MapSet(acc.levels, key, level.qty),
      flashes |-> IF changed THEN MapSet(acc.flashes, key, [dir |-> dir, ts |-> clock])
                  ELSE acc.flashes,
      recorded |-> IF changed THEN acc.recorded \cup {key} ELSE acc.recorded]

\* bids.forEach / asks.forEach of updateLevel
RECURSIVE UpdateLevels(_, _, _, _, _)
UpdateLevels(acc, prev, side, levels, clock) ==
  IF Len(levels) = 0 THEN acc
  ELSE UpdateLevels(updateLevel(acc, prev, side, Head(levels), clock), prev, side,
                    Tail(levels), clock)

\* The flash effect: nothing without a snapshot; else every level of the two
\* sides is compared with lastLevelsRef, and the flashes older than 900 ms
\* are deleted
flashEffect(prevLevels, prevFlashes, snapshot, clock) ==
  IF snapshot.isNull
  THEN [levels |-> prevLevels, flashes |-> prevFlashes, recorded |-> {}]
  ELSE LET start == [levels |-> <<>>, flashes |-> prevFlashes, recorded |-> {}]
           afterBids == UpdateLevels(start, prevLevels, "bid", PanelBids(snapshot), clock)
           done == UpdateLevels(afterBids, prevLevels, "ask", PanelAsks(snapshot), clock)
           live == { k \in DOMAIN done.flashes : ~ (clock - done.flashes[k].ts > 900) }
       IN [done EXCEPT !.flashes = [k \in live |-> done.flashes[k]]]

\* getFlashDir(key) at a render
getFlashDir(flashes, key, clock) ==
  IF key \notin DOMAIN flashes \/ clock - flashes[key].ts > 900 THEN "null"
  ELSE flashes[key].dir

\* The panel is rendered with a new snapshot prop; its flash effect runs
SnapshotRendered(snapshot) ==
  LET out == flashEffect(lastLevelsRef, flowFlashRef, snapshot, dateNow)
  IN /\ snapshotProp' = snapshot
     /\ priorSnapshot' = IF snapshotProp.isNull THEN priorSnapshot ELSE snapshotProp
     /\ lastLevelsRef' = out.levels
     /\ flowFlashRef' = out.flashes
     /\ flashed' = out.recorded
     /\ lastOp' = Op("snapshot", IF snapshot.isNull THEN 0 ELSE snapshot.last_update_id)
     /\ UNCHANGED <<liveVars, replayStoreVars, pageVars, orphans, mounts, now,
                    applyCalls, loadOutcome, hookVars, bubbles, seenTrades,
                    sceneRef, dateNow, created, expired, panelVars, spaceVars,
                    pauseVars, scanVars, pollVars>>

\* The panel's 500 ms interval fires: setPulseTick(Date.now()), a re-render
\* in which no dependency of the flash effect has changed
PulseTick ==
  /\ dateNow < BubbleT0 + MaxPulses * 500
  /\ dateNow' = dateNow + 500
  /\ lastOp' = Op("pulse", 0)
  /\ UNCHANGED <<liveVars, replayStoreVars, pageVars, orphans, mounts, now,
                 applyCalls, loadOutcome, hookVars, bubbles, seenTrades, sceneRef,
                 created, expired, ops, panelVars, spaceVars, flashVars, pauseVars, scanVars, pollVars>>

\* The snapshots a panel may be given, prices in thousandths: a bid and an
\* ask; the bid at a price of the same hundredth with a larger quantity; the
\* bid with a smaller quantity and a second bid; asks only, the ask's
\* quantity larger; no snapshot
FlashBooks ==
  { Snapshot(1, << <<100004, 10>> >>, << <<110000, 10>> >>, BubbleT0),
    Snapshot(2, << <<100001, 20>> >>, << <<110000, 10>> >>, BubbleT0),
    Snapshot(3, << <<100004, 5>>, <<99000, 7>> >>, << <<110000, 10>> >>, BubbleT0),
    Snapshot(4, <<>>, << <<110000, 30>> >>, BubbleT0),
    NullBook }

FlashNext ==
  \/ \E snapshot \in FlashBooks : ops < MaxSnapshots /\ ops' = ops + 1
                                   /\ SnapshotRendered(snapshot)
  \/ PulseTick

FlashSpec == Init /\ [][FlashNext]_vars

WallNext ==
  /\ Len(applyCalls) < MaxBooks
  /\ \E book \in BookUniverse :
       ReplayEventApplied(Ev(LastEventTs + book.gap, "order_book",
                             Snapshot(Len(applyCalls) + 1, book.bids, book.asks,
                                      LastEventTs + book.gap)))

WallSpec == Init /\ [][WallNext]_vars

\* ----------------------------------------------------------------- claims
\* The replay-derived state right after a fresh load: everything empty
FreshReplayState == ReplayState(<<>>, <<>>, NullBook, <<>>, <<>>)

IsSortedByTs(list) == \A i \in 1..(Len(list) - 1) : list[i].ts <= list[i + 1].ts

\* C1.  Scrub determinism: right after handleScrub(p) on a loaded timeline the
\* replay-derived state and the cursor are those a fresh load followed by one
\* handleScrub(p) produces, whatever play, pause, tick and scrub preceded.
C1_ScrubDeterminism ==
  lastOp.op = "scrub" =>
    LET fresh == applyEventsUpTo(FreshReplayState, events, startTsRef,
                                 (endTsRef - startTsRef) * lastOp.value)
    IN /\ CurrentReplayState = fresh.rs
       /\ indexRef = fresh.idx

\* A scrub to 0.2 during playback that leaves an alert applied and events ahead
C1_Witness ==
  /\ lastOp = Op("scrub", 200)
  /\ isPlaying
  /\ Len(replayWhaleAlerts) > 0
  /\ indexRef < Len(events)

\* C2.  Play-forward equals replay-from-scratch: after a tick that brought the
\* virtual time to t, the replay-derived state and the cursor are those of
\* resetting and applying, in order, every event with ts - startTs <= t.
C2_PlayEqualsReplay ==
  lastOp.op = "tick" =>
    LET scratch == applyEventsUpTo(FreshReplayState, events, startTsRef, virtualTimeRef)
    IN /\ CurrentReplayState = scratch.rs
       /\ indexRef = scratch.idx

\* A tick that stopped mid-timeline with two events applied
C2_Witness ==
  /\ lastOp.op = "tick"
  /\ Len(applyCalls) >= 2
  /\ indexRef < Len(events)
  /\ virtualTimeRef > 0

\* C7.  Replay ordering: the loaded timeline is sorted ascending by ts, and the
\* applyEvent calls since the last reset are in non-decreasing ts order.
C7_ReplayOrdering ==
  /\ IsSortedByTs(events)
  /\ IsSortedByTs(applyCalls)

\* Three events of distinct timestamps applied since the last reset
C7_Witness ==
  /\ Len(applyCalls) = 3
  /\ applyCalls[1].ts < applyCalls[2].ts
  /\ applyCalls[2].ts < applyCalls[3].ts

\* C10.  Load failure yields an empty Idle state: once the mounted page's fetch
\* has failed or returned no events, the timeline is empty, the duration and
\* the progress are 0 and the replay-derived state is empty, also after Play
\* and also on a page re-entered after an earlier replay session.
C10_LoadFailureIsEmptyIdle ==
  (pageMounted /\ loadOutcome \in {"failed", "empty"}) =>
    /\ events = <<>>
    /\ endTsRef - startTsRef = 0
    /\ progress = RatZero
    /\ replayWhaleAlerts = <<>>
    /\ replayInstitutionalEvents = <<>>
    /\ replayOrderBook = NullBook
    /\ orderBookHistory = <<>>

\* C8. Whatever sequence of mount, open, message, error, close, reconnect,
\* url change and unmount the hook goes through, no message of the feed is
\* applied to the store twice.
C8_ExactlyOnce ==
  \A i, j \in DOMAIN appliedMsgs : i # j => appliedMsgs[i] # appliedMsgs[j]

\* A step in which a fetchReplay, of the mounted page or of an unmounted one,
\* succeeds
LoadStep ==
  \/ lastOp'.op = "load" /\ fetchPending /\ ~fetchPending'
  \/ lastOp'.op = "orphanload" /\ FetchOf \in orphans /\ FetchOf \notin orphans'

\* C9 (as the code has it). Live and replay are kept apart, not exclusive: a
\* successful load of a timeline empties the replay-derived store fields
\* (replayWhaleAlerts, replayInstitutionalEvents, replayOrderBook) and leaves
\* the live-derived state as it is; a step that changes live-derived state, a
\* feed message applied during a replay session included, changes no
\* replay-derived state, and a step that changes replay-derived state changes
\* no live-derived state.
C9_LiveAndReplayKeptApart ==
  [][ /\ LoadStep =>
           /\ replayWhaleAlerts' = <<>>
           /\ replayInstitutionalEvents' = <<>>
           /\ replayOrderBook' = NullBook
           /\ UNCHANGED liveVars
      /\ (~ UNCHANGED liveVars) => UNCHANGED <<replayStoreVars, orderBookHistory>>
      /\ (~ UNCHANGED <<replayStoreVars, orderBookHistory>>) => UNCHANGED liveVars
    ]_vars

\* C9 witness: a second replay session with replay events applied while the
\* store holds live alerts and a live order book
C9_Witness ==
  /\ pageMounted /\ mounts = 2 /\ loadOutcome = "loaded" /\ lastOp.op = "scrub"
  /\ replayWhaleAlerts # <<>>
  /\ whaleAlerts # <<>> /\ ~ orderBook.isNull
  /\ Len(appliedMsgs) = 2

\* C9 (as stated). While a replay session is active the live-derived state is
\* the empty state the switch to replay left: no live alert, institutional
\* event, order book or trade is in the store.
C9_NeverMixed ==
  (pageMounted /\ loadOutcome = "loaded") =>
    /\ whaleAlerts = <<>>
    /\ institutionalEvents = <<>>
    /\ orderBook = NullBook
    /\ executedTrades = <<>>

\* C3. After any sequence of whale_alert, whale_alert_update,
\* institutional_execution and order_book events applied through the live path
\* and through the replay path, the derived states are equal: the same retained
\* alerts and institutional events in the same order, the same order book.
C3_LiveEqualsReplay ==
  /\ whaleAlerts = replayWhaleAlerts
  /\ institutionalEvents = replayInstitutionalEvents
  /\ orderBook = replayOrderBook

NoDuplicateIds ==
  \A i, j \in DOMAIN bubbles : i # j => bubbles[i].id # bubbles[j].id

\* C4. Dedup: the pool never holds two entities with the same trade_id, and an
\* addBubble for a trade_id already in the seen-set creates no entity: it
\* leaves the pool and the seen-set as they are, however often the same trade
\* is delivered.
C4_Dedup ==
  [][ /\ NoDuplicateIds'
      /\ (lastOp'.op = "addBubble" /\ lastOp'.value \in seenTrades) =>
           (bubbles' = bubbles /\ seenTrades' = seenTrades)
    ]_vars

\* C4 witness: trade 1 spawned, trade 2 spawned, then trade 1 delivered again
C4_Witness ==
  /\ lastOp = Op("addBubble", 1)
  /\ created = <<1, 2>>
  /\ Len(bubbles) = 2

\* The entities of a pool, in order, without their positions
Entities(pool) ==
  [i \in DOMAIN pool |-> [id |-> pool[i].id, createdAt |-> pool[i].createdAt]]

\* C5. Lifespan: a frame at time now removes exactly the entities with
\* now - createdAt > 60000: every entity that old is gone after it, every
\* entity with now - createdAt <= 60000 stays, in its place.
C5_Lifespan ==
  [][ lastOp'.op = "animate" =>
        LET young(bubble) == dateNow - bubble.createdAt <= 60000
        IN Entities(bubbles') = Entities(SelectSeq(bubbles, young))
    ]_vars

\* C5 witness: a frame that removed an entity and kept one of age exactly 60000
C5_Witness ==
  /\ lastOp.op = "animate"
  /\ expired
  /\ \E i \in DOMAIN bubbles : dateNow - bubbles[i].createdAt = 60000

LastN(list, n) == SubSeq(list, Max(1, Len(list) - n + 1), Len(list))

\* C6. Capacity: the pool never holds more than 420 entities; as long as no
\* frame has removed an entity, it holds the entities created by the last 420
\* spawns that created one (all of them while they are fewer), in spawn order:
\* each overflowing spawn evicted the entity spawned first, whatever lifespan
\* it had left.
C6_Capacity ==
  /\ Len(bubbles) <= 420
  /\ ~ expired => [i \in DOMAIN bubbles |-> bubbles[i].id] = LastN(created, 420)

\* C6 witness: 422 entities created, 420 in the pool, the first two evicted,
\* the first of the pool with less lifespan left than the last
C6_Witness ==
  /\ Len(created) = 422
  /\ Len(bubbles) = 420
  /\ ~ expired
  /\ bubbles[1].id = 3
  /\ bubbles[420].createdAt < bubbles[1].createdAt

\* C11. Scrubbing a timeline of zero duration (empty, or all events at one
\* timestamp) is a no-op: handleScrub(p) leaves the derived replay state, the
\* cursor, the virtual time and the progress as they were, for every p.
C11_ZeroDurationScrubNoOp ==
  [][ (lastOp'.op \in {"scrub", "scrubreturn"} /\ endTsRef = startTsRef) =>
        UNCHANGED <<replayStoreVars, orderBookHistory, indexRef, virtualTimeRef,
                    progress>>
    ]_vars

\* C12. An event with an unparsable timestamp is dropped: it creates no entity
\* in the bubble pool.  Every entity of the pool belongs to a retained trade
\* whose timestamp parses.
C12_UnparsableDropped ==
  \A i \in DOMAIN bubbles :
    \E j \in DOMAIN executedTrades :
      /\ executedTrades[j].trade_id = bubbles[i].id
      /\ executedTrades[j].timestamp # Undefined

\* The list holds, newest first, consecutive entries down from its newest
NewestFirst(list) ==
  \A i \in DOMAIN list : list[i].trade_id = list[1].trade_id - i + 1

\* C13. Bounded buffers, oldest evicted first: after n adds executedTrades
\* holds the min(200, n) entries added last, whaleAlerts and replayWhaleAlerts
\* the min(100, n) added last, the ripple list the min(20, n) added last, each
\* newest first; the pattern-marker list holds at most 6 markers, which are
\* the markers added last, and a marker is missing from it only if newer ones
\* filled the list or it was older than 5 s at the last scan.
C13_BoundedBuffers ==
  /\ Len(executedTrades) = Min(200, HeadId(executedTrades))
  /\ NewestFirst(executedTrades)
  /\ Len(whaleAlerts) = Min(100, HeadId(whaleAlerts))
  /\ NewestFirst(whaleAlerts)
  /\ Len(replayWhaleAlerts) = Min(100, HeadId(replayWhaleAlerts))
  /\ NewestFirst(replayWhaleAlerts)
  /\ Len(ripples) = Min(20, HeadId(whaleAlerts))
  /\ \A i \in DOMAIN ripples : ripples[i].id = HeadId(whaleAlerts) - i + 1
  /\ Len(patterns) <= 6
  /\ patterns = LastN(addedPatterns, Len(patterns))
  /\ Len(patterns) < 6 =>
       \A i \in 1..(Len(addedPatterns) - Len(patterns)) :
         dateNow - addedPatterns[i].ts > 5000

\* C13 witness: 202 trades added, the 200 newest held
C13_Witness ==
  /\ HeadId(executedTrades) = 202
  /\ Len(executedTrades) = 200
  /\ executedTrades[200].trade_id = 3

\* The history's first n snapshots hold one bid level each, all in the bucket
\* of price 100, with the quantities 10, 10, 10, 10, 100
Scenario(n) ==
  /\ Len(orderBookHistory) = n
  /\ \A i \in 1..n :
       orderBookHistory[i].data.bids = << <<100, <<10, 10, 10, 10, 100>>[i] * QtyDen>> >>

\* C14. Anomaly intensity, degenerate cases and scenario: a bid wall whose
\* bucket has fewer than 2 history samples, or whose samples are all equal
\* (zero standard deviation), has intensity 0; when the history's quantities
\* in one bucket are the first n of [10,10,10,10,100] and the current snapshot
\* is the n-th, the intensity is 0 for the first four and > 0.35 at the
\* fifth, so the bucket is a confirmed wall only at the fifth.
C14_IntensityScenario ==
  /\ \A i \in DOMAIN BidWalls :
       LET samples == Samples(HighlightHistory, "bid", bucketSize(replayOrderBook),
                              BidWalls[i].price)
       IN (Len(samples) < 2 \/ \A j, k \in DOMAIN samples : samples[j].qty = samples[k].qty)
            => HighlightOf(BidHighlights, BidWalls[i].price) = RatZero
  /\ \A n \in 1..5 :
       (Scenario(n) /\ replayOrderBook = orderBookHistory[n].data)
       => LET intensity == HighlightOf(BidHighlights, 100)
          IN /\ n < 5 => intensity = RatZero /\ ~isWall(intensity)
             /\ n = 5 => ~RatLeq(intensity, Rat(35, 100)) /\ isWall(intensity)

\* C14 witness: the fifth snapshot of the scenario is on display and its
\* bucket is a confirmed wall
C14_Witness ==
  /\ Scenario(5)
  /\ replayOrderBook = orderBookHistory[5].data
  /\ isWall(HighlightOf(BidHighlights, 100))

\* Current quantities tried for a wall bucket and for an added level
QtyChoices ==
  {0, 1, QtyDen, 10 * QtyDen, 28 * QtyDen, 64 * QtyDen, 100 * QtyDen,
   136 * QtyDen, 1000 * QtyDen}

\* The intensity computeHighlight gives the bucket as a bid wall of quantity
\* qty, over the history and bucket size on display
IntensityAt(bucket, qty) ==
  HighlightOf(computeHighlight(<<[price |-> bucket, qty |-> qty]>>, "bid",
                               HighlightHistory, bucketSize(replayOrderBook)),
              bucket)

\* C15. Wall threshold monotonicity: with the history held fixed, for any two
\* current quantities q1 <= q2 of the same wall bucket the intensity at q1 is
\* at most the intensity at q2, and every intensity lies in [0, 1].
C15_IntensityMonotone ==
  \A i \in DOMAIN BidWalls :
    LET table == { [qty |-> qty, intensity |-> IntensityAt(BidWalls[i].price, qty)] :
                     qty \in QtyChoices \cup {BidWalls[i].qty} }
    IN \A low, high \in table :
         /\ RatLeq(RatZero, low.intensity) /\ RatLeq(low.intensity, RatOne)
         /\ low.qty <= high.qty => RatLeq(low.intensity, high.intensity)

\* C15 witness: a wall bucket whose intensity rises strictly, inside (0, 1),
\* from one quantity to a larger one, and is clamped to 1 at a still larger one
C15_Witness ==
  \E i \in DOMAIN BidWalls :
    LET table == { [qty |-> qty, intensity |-> IntensityAt(BidWalls[i].price, qty)] :
                     qty \in QtyChoices }
    IN \E low, mid, high \in table :
         /\ low.qty < mid.qty /\ mid.qty < high.qty
         /\ low.intensity # RatZero
         /\ ~RatLeq(mid.intensity, low.intensity)
         /\ mid.intensity # RatOne
         /\ high.intensity = RatOne

\* The snapshot with one more bid level and one more ask level
WithLevels(snapshot, bidQty, askQty) ==
  [snapshot EXCEPT !.bids = Append(@, <<100, bidQty>>),
                   !.asks = Append(@, <<110, askQty>>)]

\* C16. Imbalance bounds: for every snapshot with non-negative quantities
\* the imbalance lies in [-1, 1], and it is 1 only when the total ask depth
\* is 0.
C16_ImbalanceBounds ==
  ~replayOrderBook.isNull =>
    \A snapshot \in {replayOrderBook} \cup
                     { WithLevels(replayOrderBook, bidQty, askQty) :
                         bidQty \in QtyChoices, askQty \in QtyChoices } :
      LET ratio == imbalance(snapshot)
      IN /\ 0 - ratio.den <= ratio.num /\ ratio.num <= ratio.den
         /\ ratio = RatOne => SumQty(PanelAsks(snapshot)) = 0

\* C16 witness: a book with bids of at least one unit and no asks is on
\* display and its imbalance is 1
C16_Witness ==
  /\ ~replayOrderBook.isNull
  /\ SumQty(PanelBids(replayOrderBook)) >= QtyDen
  /\ imbalance(replayOrderBook) = RatOne

\* Playback is complete: the cursor is at the end and nothing is playing
Complete == ~isPlaying /\ indexRef = Len(events)

\* The end of the timeline lies within the time the clock can still reach
EndInReach ==
  /\ ~playOriginRef.isNull
  /\ FrameMs * MaxClock * SPEED * PDen - playOriginRef.val >= (endTsRef - startTsRef) * PDen

\* C17. Playback completes: while Playing on a non-empty timeline, with frames
\* firing, playback eventually reaches Complete unless the user pauses, scrubs
\* or resets; the tick at which the virtual time reaches the duration leaves
\* the cursor at the timeline's length, no frame scheduled and playing false;
\* from then until a scrub or reset, Play and its ticks apply no event.
C17_PlaybackCompletes ==
  /\ (isPlaying /\ Len(events) > 0 /\ EndInReach)
       ~> (Complete \/ lastOp.op \in {"pause", "scrub", "reset"})
  /\ [][ (lastOp'.op = "tick" /\ virtualTimeRef' >= (endTsRef - startTsRef) * PDen)
           => (indexRef' = Len(events) /\ ~isPlaying' /\ frames' = 0 /\ rafRef' = "null") ]_vars
  /\ [][ (indexRef = Len(events) /\ Len(events) > 0
            /\ lastOp'.op \in {"play", "pause", "tick", "tickreturn"})
           => (applyCalls' = applyCalls /\ indexRef' = indexRef) ]_vars

\* C18. Progress: in every reachable state the exposed progress is in [0, 1];
\* for a timeline of positive duration, immediately after each tick progress
\* = min(virtualElapsed, duration) / duration, where virtualElapsed is the
\* time since the play origin times SPEED, so that progress is 1 exactly
\* when playback has completed.
C18_Progress ==
  /\ [](0 <= progress.num /\ progress.num <= progress.den)
  /\ [][ (lastOp'.op \in {"tick", "tickreturn"} /\ now' = now /\ endTsRef > startTsRef)
           => LET duration == (endTsRef - startTsRef) * PDen
                  virtualElapsed == now * SPEED * PDen - playOriginRef.val
              IN /\ progress' = Rat(Min(virtualElapsed, duration), duration)
                 /\ progress' = RatOne <=> Complete' ]_vars

\* Tick callbacks that are scheduled: frames requested by the mounted page
\* and the loops of unmounted pages
PendingTicks == frames + Cardinality({o \in orphans : o.kind = "loop"})

\* The step runs a tick callback
TickRuns == now' = now /\ lastOp'.op \in {"tick", "tickreturn", "orphantick"}

\* C19. Stopping playback halts tick scheduling: while playback is stopped
\* (paused or complete) or the replay page is unmounted, no tick runs, so no
\* event is applied by one, until startPlayback is invoked again; and at most
\* one tick loop is scheduled at any time.
C19_StopHaltsTicks ==
  /\ [][ (~pageMounted \/ ~isPlaying) => ~TickRuns ]_vars
  /\ [](PendingTicks <= 1)
  /\ []((~pageMounted \/ ~isPlaying) => PendingTicks = 0)

C21_SpawnAgeSkip ==
  [][ \A tradeId \in 1..MaxTradeIds : \A ageMs \in AgeChoices :
        (AddBubble(tradeId, ageMs) /\ tradeId \notin seenTrades /\ sceneRef) =>
          ((\E i \in DOMAIN bubbles' : bubbles'[i].id = tradeId) <=> ageMs <= 60000)
    ]_vars


\* C26. Level history append and eviction: every applied order-book snapshot
\* is appended to the level history; after applying snapshot s, s is the
\* newest history entry and every entry e has s.ts - e.ts <= 3,600,000 ms.
C26_HistoryAppend ==
  (lastOp.op = "applyEvent" /\ Len(applyCalls) > 0) =>
    LET s == applyCalls[Len(applyCalls)]
    IN s.type = "order_book" =>
         /\ Len(orderBookHistory) > 0
         /\ orderBookHistory[Len(orderBookHistory)] = s
         /\ \A i \in DOMAIN orderBookHistory : s.ts - orderBookHistory[i].ts <= 3600000


\* The reference statistics: one sample per history snapshot that registers a
\* quantity in the bucket, the snapshot's total quantity in that bucket
RECURSIVE BucketTotals(_, _, _, _)
BucketTotals(history, side, size, bucket) ==
  IF Len(history) = 0 THEN <<>>
  ELSE LET levels == IF side = "bid" THEN PanelBids(Head(history))
                     ELSE PanelAsks(Head(history))
           inBucket(level) == BucketOf(level.price, size) = bucket
           hit == SelectSeq(levels, inBucket)
           rest == BucketTotals(Tail(history), side, size, bucket)
       IN IF Len(hit) = 0 THEN rest
          ELSE << [price |-> bucket, qty |-> SumQty(hit)] >> \o rest

\* C27. Intensity statistics match the reference: for each wall bucket the
\* intensity is the one computed from one sample per history snapshot, the
\* snapshot's total quantity in the bucket.
C27_ReferenceStatistics ==
  \A i \in DOMAIN BidWalls :
    HighlightOf(BidHighlights, BidWalls[i].price) =
      Intensity(BidWalls[i].qty,
                BucketTotals(HighlightHistory, "bid", bucketSize(replayOrderBook),
                             BidWalls[i].price))


\* C22. Whale classification depends only on value: an entity of the pool is
\* classified whale exactly when its trade_value exceeds the whale threshold
\* (100,000), whether it arrived as a trade or as a whale alert.
C22_WhaleByValue ==
  \A i \in DOMAIN bubbles : bubbles[i].isWhale <=> bubbles[i].tradeValue > 100000


\* The buffer the given focus mode draws from, bounded to its 200 newest
FocusBuffer == Take(IF focusMode = "whales" THEN whaleAlerts ELSE executedTrades, 200)

\* C23. Mode switch re-hydrates consistently: right after a switch of the
\* focus mode the pool holds exactly one entity per distinct trade_id of the
\* new mode's buffer whose age is at most the lifespan (not stale), every
\* entity is built from an entry of that buffer under the new mode, and the
\* seen-set holds ids of that buffer only.
C23_ModeSwitchRehydrates ==
  lastOp.op = "setFocusMode" =>
    LET fresh == { FocusBuffer[i].trade_id : i \in
                     { j \in DOMAIN FocusBuffer :
                         dateNow - FocusBuffer[j].timestamp <= 60000 } }
    IN /\ { bubbles[i].id : i \in DOMAIN bubbles } = fresh
       /\ Len(bubbles) = Cardinality(fresh)
       /\ seenTrades \subseteq { FocusBuffer[i].trade_id : i \in DOMAIN FocusBuffer }
       /\ \A i \in DOMAIN bubbles : \E j \in DOMAIN FocusBuffer :
            /\ bubbles[i].id = FocusBuffer[j].trade_id
            /\ bubbles[i].createdAt = FocusBuffer[j].timestamp
            /\ bubbles[i].tradeValue = FocusBuffer[j].trade_value
            /\ bubbles[i].isWhale =
                 (focusMode = "whales" \/ bubbles[i].tradeValue >= WHALE_THRESHOLD)


\* C29. The scorer is invoked once per trade, in order: among the calls of
\* computeAggression that one arrival or focus switch makes no trade is
\* scored more than once and the timestamps passed, which lastTradeTsRef
\* takes in turn, never go backwards.
C29_ScoredOnceInOrder ==
  /\ \A i, j \in DOMAIN scored : scored[i].id = scored[j].id => i = j
  /\ \A i \in 1..(Len(scored) - 1) : scored[i].ts <= scored[i + 1].ts


\* C30. The first event is not aggressive: while the store holds a single
\* event, the first the feed delivered, there is no prior trade history, and
\* the entity of that event has sizeScore 0 and speedScore 0, hence
\* aggression 0, in both focus modes -- also when the event is a whale alert
\* received before any executed trade.
C30_FirstEventCalm ==
  Len(executedTrades) + Len(whaleAlerts) = 1 =>
    \A i \in DOMAIN bubbles : bubbles[i].aggression = Calm


\* C24. Unknown mid price means no repositioning: while the mid price is
\* unknown (0) every entity of the pool, spawned at price-axis position 0,
\* is at position 0, whatever number of frames has run.
C24_NoRepositioning ==
  midPriceRef = RatZero =>
    \A i \in DOMAIN bubbles : bubbles[i].y = Height([num |-> 0, den |-> 1], FALSE)

\* C25. An empty side gives midPrice 0: while the order book applied last has
\* no bids or no asks, the mid price of the order-book panel is 0 and so is
\* the mid price the bubble space maps positions with, also when an earlier
\* snapshot had a non-zero mid price.
C25_EmptySideMidZero ==
  (~ orderBook.isNull /\ (Len(orderBook.bids) = 0 \/ Len(orderBook.asks) = 0)) =>
    /\ midPrice(orderBook) = RatZero
    /\ midPriceRef = RatZero


\* The level keys of a snapshot as the panel shows it, and the quantity at one
KeysOf(snapshot) ==
  { LevelKey("bid", PanelBids(snapshot)[i].price) : i \in DOMAIN PanelBids(snapshot) }
    \cup
  { LevelKey("ask", PanelAsks(snapshot)[i].price) : i \in DOMAIN PanelAsks(snapshot) }

QtyAt(snapshot, key) ==
  LET levels == IF key.side = "bid" THEN PanelBids(snapshot) ELSE PanelAsks(snapshot)
      i == CHOOSE j \in DOMAIN levels : toFixed2(levels[j].price) = key.price
  IN levels[i].qty

\* C28. Flash detection: when the panel is given a snapshot, a flash is
\* recorded for a level key (side, price to 2 decimals) exactly when the
\* snapshot it had before holds that key with a different quantity, with
\* direction up iff the quantity increased and down otherwise, and the flash
\* is then shown; a key absent from the prior snapshot or of unchanged
\* quantity records no flash.
C28_FlashDetection ==
  (lastOp.op = "snapshot" /\ ~ snapshotProp.isNull) =>
    \A key \in KeysOf(snapshotProp) \cup KeysOf(priorSnapshot) \cup flashed :
      LET changed == /\ key \in KeysOf(snapshotProp)
                     /\ key \in KeysOf(priorSnapshot)
                     /\ QtyAt(priorSnapshot, key) # QtyAt(snapshotProp, key)
      IN /\ key \in flashed <=> changed
         /\ changed =>
              getFlashDir(flowFlashRef, key, dateNow) =
                IF QtyAt(snapshotProp, key) > QtyAt(priorSnapshot, key)
                THEN "up" ELSE "down"

C28_Witness ==
  /\ lastOp.op = "snapshot"
  /\ snapshotProp = Snapshot(3, << <<100004, 5>>, <<99000, 7>> >>, << <<110000, 10>> >>, BubbleT0)
  /\ priorSnapshot = Snapshot(2, << <<100001, 20>> >>, << <<110000, 10>> >>, BubbleT0)
  /\ flashed = {LevelKey("bid", 100004)}
  /\ getFlashDir(flowFlashRef, LevelKey("bid", 100004), dateNow) = "down"
  /\ dateNow > BubbleT0


\* C36. Live/replay store isolation: each replay action of the store leaves
\* the live fields (whaleAlerts, institutionalEvents, orderBook,
\* executedTrades) as they were, and each live action leaves the replay
\* fields (replayWhaleAlerts, replayInstitutionalEvents, replayOrderBook) as
\* they were.
C36_StoreIsolation ==
  [][ /\ lastOp'.op \in ReplayActions => UNCHANGED liveVars
      /\ lastOp'.op \in LiveActions => UNCHANGED replayStoreVars
    ]_vars

\* C36 witness: after three calls, clearAlerts has left the live alerts empty
\* and a replay alert in place
C36_Witness ==
  /\ lastOp.op = "clearAlerts"
  /\ ops = 3
  /\ whaleAlerts = <<>>
  /\ Len(replayWhaleAlerts) = 1


\* The timeline events due at the virtual time: ts - startTs <= virtualTime
Due == { i \in DOMAIN events : (events[i].ts - startTsRef) * PDen <= virtualTimeRef }

\* C33. Cursor and virtual time stay consistent: after every tick and every
\* scrub on a loaded timeline the cursor equals the number of timeline events
\* with ts - startTs <= virtualTime, and the events applied since the last
\* reset are exactly the first `cursor` events of the timeline, each once.
C33_CursorConsistent ==
  (lastOp.op \in {"tick", "tickreturn", "scrub"} /\ Len(events) > 0) =>
    /\ indexRef = Cardinality(Due)
    /\ applyCalls = SubSeq(events, 1, indexRef)


\* A tick has stopped in the middle of a loaded timeline: some events are due
\* and applied, the others are still ahead of the virtual time
C33_Witness ==
  /\ lastOp.op = "tick"
  /\ 0 < indexRef /\ indexRef < Len(events)
  /\ Cardinality(Due) = indexRef
  /\ applyCalls = SubSeq(events, 1, indexRef)


\* The timeline events whose offset from the start is in (lo, hi], in order
DueBetween(lo, hi) ==
  LET between(e) == /\ (e.ts - startTsRef) * PDen > lo
                    /\ (e.ts - startTsRef) * PDen <= hi
  IN SelectSeq(events, between)

\* While playback is paused at virtual time v the virtual time stays v and no
\* event beyond v has been applied
PausedStill ==
  (~pausedAt.isNull /\ ~isPlaying) =>
    /\ virtualTimeRef = pausedAt.val
    /\ \A i \in DOMAIN applyCalls :
         (applyCalls[i].ts - startTsRef) * PDen <= pausedAt.val

\* The step is the first tick after a startPlayback that resumed a pause
FirstTickAfterResume ==
  /\ ~pausedAt.isNull /\ isPlaying
  /\ lastOp'.op \in {"tick", "tickreturn"}

\* The timeline events from the cursor on that are due at virtual time hi
DueFromCursor(hi) ==
  LET due == { i \in DOMAIN events :
                 i > indexRef /\ (events[i].ts - startTsRef) * PDen <= hi }
  IN SubSeq(events, indexRef + 1, indexRef + Cardinality(due))

LiveSockets == { s \in DOMAIN sockets : sockets[s].state \in {"connecting", "open"} }

\* C35. Feed connection lifecycle: per useWebSocket instance at most one
\* connection is open or pending at any time; a closed connection of a mounted
\* hook is retried (its reconnect timer is set, or the reconnect has been
\* made); after the hook's cleanup has run no new connection is opened and no
\* further message is applied through that instance: no open or pending
\* connection belongs to an effect run whose cleanup has run.
C35_ConnectionLifecycle ==
  /\ Cardinality(LiveSockets) <= 1
  /\ \A s \in LiveSockets : effects[sockets[s].effect].active
  /\ \A s \in DOMAIN sockets :
       (sockets[s].state = "closed" /\ effects[sockets[s].effect].active) =>
         \/ effects[sockets[s].effect].timers > 0
         \/ effects[sockets[s].effect].ws > s


\* The ids of the current mode's retained events whose age is below the lifespan
FreshIds ==
  { FocusBuffer[i].trade_id : i \in
      { j \in DOMAIN FocusBuffer : dateNow - FocusBuffer[j].timestamp < LIFESPAN_MS } }

\* C37. The pool is a function of the retained buffer: right after a change of
\* executedTrades or whaleAlerts (an arrival) the pool holds exactly one entity
\* per distinct trade_id among the current mode's retained events (at most
\* 200) whose age is below the lifespan; so the pool never holds more than 200
\* entities and the 420-capacity eviction has dropped none of them.
C37_PoolOfBuffer ==
  lastOp.op \in {"trade", "whale_alert"} =>
    /\ { bubbles[i].id : i \in DOMAIN bubbles } = FreshIds
    /\ Len(bubbles) = Cardinality(FreshIds)
    /\ Len(FocusBuffer) <= 200
    /\ Len(bubbles) <= Len(FocusBuffer)
    /\ Len(bubbles) < MAX_BUBBLES

\* A trade has arrived in all-trades mode with the buffer full for the run:
\* one retained event is stale or a duplicate, so the pool is smaller than
\* the buffer, and not empty
C37_Witness ==
  /\ lastOp.op = "trade"
  /\ focusMode = "all"
  /\ Len(executedTrades) = MaxTrades
  /\ Len(whaleAlerts) > 0
  /\ Len(bubbles) > 0
  /\ Len(bubbles) < Len(executedTrades)
  /\ dateNow > BubbleT0

\* Marker id is in the list of pattern markers
Listed(id) == \E i \in DOMAIN patterns : patterns[i].id = id

\* C31. Pattern markers are ephemeral: the 2 s pattern scan keeps firing while
\* trades arrive at any rate, and every marker is eventually removed from the
\* list once it is older than 5 s; none stays in the list indefinitely.
C31_MarkersEphemeral ==
  /\ []<><<ScanFiresSome>>_vars
  /\ \A id \in 1..MaxScanMarkers : Listed(id) ~> ~Listed(id)

\* C32. The live order book never regresses: under every interleaving of the
\* socket's order_book messages and the order-book poll, the snapshot in the
\* store is only replaced by one at least as recent (neither its
\* last_update_id nor its timestamp decreases).
C32_BookNeverRegresses ==
  [][ (~orderBook.isNull /\ ~orderBook'.isNull) =>
        /\ orderBook'.last_update_id >= orderBook.last_update_id
        /\ orderBook'.timestamp >= orderBook.timestamp ]_vars
====
